---- MODULE Spec2Model ----
(***************************************************************************)
(* Editor-bridge control plane of the VS Code IDE companion:               *)
(*   - OpenFilesManager  (workspace context aggregator, debounced signal)  *)
(*   - DiffManager       (diff-proposal lifecycle)                         *)
(*   - IDEServer         (access control, sessions, broadcasts)            *)
(* JavaScript values are rendered as follows.  An optional value           *)
(* (undefined | v) is the sequence <<>> or <<v>>.  A string whose length   *)
(* matters is a sequence of runs [ch, n] (n copies of character ch), kept  *)
(* in canonical form (no two adjacent runs of the same character).         *)
(***************************************************************************)
EXTENDS Integers, Sequences, FiniteSets, TLC

VARIABLES
    \* ---- OpenFilesManager
    openFiles,        \* File[]: the tracked files, most recently used first
    debounceTimer,    \* handle of the last debounce timeout (0: undefined)
    timers,           \* pending timeouts of the event loop: handle -> due time
    now,              \* the wall clock in ms (Date.now(), timer due times)
    isTrusted,        \* vscode.workspace.isTrusted
    \* ---- history of the aggregator (not program state)
    lastMutationAt,   \* clock value at the last call of fireWithDebounce
    firesSinceMutation, \* changed signals fired since that call
    afterLastEvent,   \* openFiles as the last editor event handler left it
    renames,          \* rename events handled so far
    snapshot,         \* a value the state getter returned, held by its caller
    lastOp,           \* the handler (of any component) that ran last
    \* ---- DiffManager and DiffContentProvider
    diffDocuments,    \* Map<uri, DiffInfo>, in insertion order
    providerContent,  \* DiffContentProvider.content: uri -> text
    issued,           \* the uris showDiff has made, one per value of Math.random()
    tasks,            \* the calls of DiffManager methods that are under way
    \* ---- the editor (the rendering collaborator)
    docs,             \* the open text documents of the diff scheme: uri -> text
    tabs,             \* the uris (right-hand sides) of the open diff tabs
    \* ---- history of the diff manager (not program state)
    emitted,          \* the notifications DiffManager.onDidChange has fired
    outcomes,         \* per call that tore a diff down or fired: its uri and outcome
    lastReturn,       \* what the last finished closeDiff returned
    accepted,         \* the uris whose acceptDiff has returned after its event
    acceptedAgain,    \* the uris acceptDiff was called with after that
    \* ---- IDEServer
    transports,       \* the session table: its keys, in insertion order
    sessionsWithInitialNotification, \* the sessions that got the first context
    keepAlive,        \* the sessions whose keep-alive interval is set
    missedPings,      \* per transport: the pings that failed in a row
    getCalls,         \* the calls of handleSessionRequest awaiting handleRequest
    firstContexts,    \* per session: the contexts handleSessionRequest sent (history)
    lastReq,          \* the last HTTP request handled (history)
    lastRes,          \* the response to it (history)
    linkUp,           \* per transport: whether a send on it succeeds
    outbox,           \* per transport: the notifications handed to send()
    \* ---- the host: the file system, the workspace, the discovery record
    disk,             \* the files of the workspace: path -> content
    server,           \* IDEServer.server is set (the HTTP server)
    workspaceFolders, \* vscode.workspace.workspaceFolders: their fsPaths
    discoveryFiles,   \* the two files in os.tmpdir(): name -> workspacePath written
    environment,      \* environmentVariableCollection: the workspace path variable
    writes,           \* the calls of writePortAndWorkspace awaiting their files
    stopTask          \* where the call of stop stands

aggVars == <<openFiles, debounceTimer, timers>>
hostVars == <<disk, server, workspaceFolders, discoveryFiles, environment,
              writes, stopTask>>
envVars == <<now, isTrusted, hostVars>>
aggHist == <<lastMutationAt, firesSinceMutation, afterLastEvent, renames, snapshot>>
diffVars == <<diffDocuments, providerContent, issued, tasks, docs, tabs,
              emitted, outcomes, lastReturn, accepted, acceptedAgain>>
sessVars == <<transports, sessionsWithInitialNotification, keepAlive, missedPings,
              getCalls, firstContexts, linkUp, lastReq, lastRes>>
srvVars == <<sessVars, outbox>>
vars == <<aggVars, envVars, aggHist, lastOp, diffVars, srvVars>>

(***************************************************************************)
(* Values                                                                  *)
(***************************************************************************)
None == <<>>
Some(x) == <<x>>

Min(a, b) == IF a <= b THEN a ELSE b

\* ---- strings as runs of characters
Rep(c, k) == IF k <= 0 THEN <<>> ELSE <<[ch |-> c, n |-> k]>>

RECURSIVE TextLen(_)
TextLen(t) == IF t = <<>> THEN 0 ELSE Head(t).n + TextLen(Tail(t))

\* a \o b for strings, keeping the canonical form
Concat(a, b) ==
    IF a = <<>> THEN b
    ELSE IF b = <<>> THEN a
    ELSE IF a[Len(a)].ch = b[1].ch
         THEN SubSeq(a, 1, Len(a) - 1)
                \o <<[ch |-> b[1].ch, n |-> a[Len(a)].n + b[1].n]>>
                \o Tail(b)
         ELSE a \o b

\* String.prototype.substring(0, k)
RECURSIVE SubstringTo(_, _)
SubstringTo(t, k) ==
    IF k <= 0 \/ t = <<>> THEN <<>>
    ELSE IF Head(t).n <= k
         THEN Concat(<<Head(t)>>, SubstringTo(Tail(t), k - Head(t).n))
         ELSE <<[ch |-> Head(t).ch, n |-> k]>>

(***************************************************************************)
(* OpenFilesManager: constants                                             *)
(***************************************************************************)
MAX_FILES == 10
MAX_SELECTED_TEXT_LENGTH == 16384
DEBOUNCE_MS == 50

\* the literal '... [TRUNCATED]'
TRUNCATED_MARKER ==
    <<[ch |-> ".", n |-> 3], [ch |-> " ", n |-> 1], [ch |-> "[", n |-> 1],
      [ch |-> "T", n |-> 1], [ch |-> "R", n |-> 1], [ch |-> "U", n |-> 1],
      [ch |-> "N", n |-> 1], [ch |-> "C", n |-> 1], [ch |-> "A", n |-> 1],
      [ch |-> "T", n |-> 1], [ch |-> "E", n |-> 1], [ch |-> "D", n |-> 1],
      [ch |-> "]", n |-> 1]>>

(***************************************************************************)
(* OpenFilesManager: the list operations                                   *)
(***************************************************************************)
FileUri(p) == [scheme |-> "file", fsPath |-> p]

isFileUri(uri) == uri.scheme = "file"

\* Array.prototype.findIndex on the path, 1-based; 0 when there is none
IndexOfPath(list, p) ==
    IF \E i \in DOMAIN list : list[i].path = p
    THEN CHOOSE i \in DOMAIN list :
            /\ list[i].path = p
            /\ \A j \in 1..(i - 1) : list[j].path # p
    ELSE 0

\* Array.prototype.find((f) => f.isActive), as an index; 0 when there is none
IndexOfActive(list) ==
    IF \E i \in DOMAIN list : list[i].isActive
    THEN CHOOSE i \in DOMAIN list :
            /\ list[i].isActive
            /\ \A j \in 1..(i - 1) : ~list[j].isActive
    ELSE 0

\* Array.prototype.splice(i, 1)
Splice(list, i) == SubSeq(list, 1, i - 1) \o SubSeq(list, i + 1, Len(list))

\* Array.prototype.pop()
Pop(list) == SubSeq(list, 1, Len(list) - 1)

\* a variant that cuts a text that just fits
SelectedTextOf_CutAtLimit(text) ==
    IF text = <<>> THEN None
    ELSE IF TextLen(text) >= MAX_SELECTED_TEXT_LENGTH
         THEN Some(Concat(SubstringTo(text, MAX_SELECTED_TEXT_LENGTH),
                          TRUNCATED_MARKER))
         ELSE Some(text)

\* getText(selection) || undefined, cut to MAX_SELECTED_TEXT_LENGTH
SelectedTextOf(text) ==
    IF text = <<>> THEN None
    ELSE IF TextLen(text) > MAX_SELECTED_TEXT_LENGTH
         THEN Some(Concat(SubstringTo(text, MAX_SELECTED_TEXT_LENGTH),
                          TRUNCATED_MARKER))
         ELSE Some(text)

\* selection.active ? {line + 1, character} : undefined
CursorOf(active) ==
    IF active = None THEN None
    ELSE Some([line |-> active[1].line + 1, character |-> active[1].character])

\* a variant that does not look at the active flag
updateActiveContext_AnyTracked(list, editor) ==
    LET i == IndexOfPath(list, editor.uri.fsPath)
    IN  IF i = 0
        THEN list
        ELSE [list EXCEPT ![i].cursor = CursorOf(editor.active),
                          ![i].selectedText = SelectedTextOf(editor.text)]

updateActiveContext(list, editor) ==
    LET i == IndexOfPath(list, editor.uri.fsPath)
    IN  IF i = 0 \/ ~list[i].isActive
        THEN list
        ELSE [list EXCEPT ![i].cursor = CursorOf(editor.active),
                          ![i].selectedText = SelectedTextOf(editor.text)]

\* (mutant) the previous active file is left as it is
DeactivatePrevious_Kept(list) == list

\* a variant that resets the flag and keeps cursor and selection
DeactivatePrevious_FlagOnly(list) ==
    LET a == IndexOfActive(list)
    IN  IF a = 0 THEN list ELSE [list EXCEPT ![a].isActive = FALSE]

\* addOrMoveToFront, first step: deactivate the previous active file
DeactivatePrevious(list) ==
    LET a == IndexOfActive(list)
    IN  IF a = 0 THEN list
        ELSE [list EXCEPT ![a].isActive = FALSE,
                          ![a].cursor = None,
                          ![a].selectedText = None]

\* a variant that leaves the tracked entry where it is
RemoveExisting_Kept(list, p) == list

\* addOrMoveToFront, second step: remove the file if it is tracked
RemoveExisting(list, p) ==
    LET i == IndexOfPath(list, p)
    IN  IF i = 0 THEN list ELSE Splice(list, i)

\* addOrMoveToFront, third step: unshift the file as the active one
Unshift(list, p, t) ==
    <<[path |-> p, timestamp |-> t, isActive |-> TRUE,
       cursor |-> None, selectedText |-> None]>> \o list

\* (mutant) the length check is off by one
EnforceMaxLength_OffByOne(list) ==
    IF Len(list) > MAX_FILES + 1 THEN SubSeq(list, 1, Len(list) - 1) ELSE list

\* addOrMoveToFront, fourth step: enforce the maximal length
EnforceMaxLength(list) ==
    IF Len(list) > MAX_FILES THEN Pop(list) ELSE list

addOrMoveToFront(list, editor, t) ==
    updateActiveContext(
        EnforceMaxLength(
            Unshift(RemoveExisting(DeactivatePrevious(list), editor.uri.fsPath),
                    editor.uri.fsPath, t)),
        editor)

\* a variant that drops the entry and the entries after it
remove_Truncating(list, uri) ==
    LET i == IndexOfPath(list, uri.fsPath)
    IN  IF i = 0 THEN list ELSE SubSeq(list, 1, i - 1)

remove(list, uri) == RemoveExisting(list, uri.fsPath)

\* a variant that moves the renamed entry to the end of the list
rename_Reinserted(list, oldUri, newUri) ==
    LET i == IndexOfPath(list, oldUri.fsPath)
    IN  IF i = 0 THEN list
        ELSE Append(Splice(list, i), [list[i] EXCEPT !.path = newUri.fsPath])

rename(list, oldUri, newUri) ==
    LET i == IndexOfPath(list, oldUri.fsPath)
    IN  IF i = 0 THEN list ELSE [list EXCEPT ![i].path = newUri.fsPath]

\* the loop of the onDidDeleteFiles handler
RECURSIVE RemoveAll(_, _)
RemoveAll(list, uris) ==
    IF uris = <<>> THEN list
    ELSE RemoveAll(IF isFileUri(Head(uris)) THEN remove(list, Head(uris))
                   ELSE list,
                   Tail(uris))

\* the loop of the onDidRenameFiles handler
RECURSIVE RenameAll(_, _)
RenameAll(list, pairs) ==
    IF pairs = <<>> THEN list
    ELSE LET o == Head(pairs).oldUri
             n == Head(pairs).newUri
         IN  RenameAll(IF ~isFileUri(o) THEN list
                       ELSE IF isFileUri(n) THEN rename(list, o, n)
                       ELSE remove(list, o),
                       Tail(pairs))

\* get state(): the list is copied, the File objects are not
StateOf(list, trusted) ==
    [workspaceState |-> [openFiles |-> list, isTrusted |-> trusted]]

(***************************************************************************)
(* References: the array [...this.openFiles] of a state the getter         *)
(* returned holds the File objects of the list of that moment.  Each       *)
(* element is a reference: at is the place of the object in openFiles, or  *)
(* 0 once the object has left the list, and val is the object as it was    *)
(* when it left.                                                           *)
(***************************************************************************)
Ref(i, file) == [at |-> i, val |-> file]

\* [...list]: a new array of the same objects
SpreadOf(list) == [i \in DOMAIN list |-> Ref(i, list[i])]

\* what the array shows now
Deref(refs, list) ==
    [i \in DOMAIN refs |-> IF refs[i].at > 0 THEN list[refs[i].at] ELSE refs[i].val]

\* the references after list.splice(i, 1), i = 0 for no removal
RefsAfterSplice(refs, list, i) ==
    [k \in DOMAIN refs |->
        IF i = 0 \/ refs[k].at = 0 \/ refs[k].at < i THEN refs[k]
        ELSE IF refs[k].at = i THEN Ref(0, list[i])
        ELSE Ref(refs[k].at - 1, refs[k].val)]

\* the references after list.unshift(file)
RefsAfterUnshift(refs) ==
    [k \in DOMAIN refs |->
        IF refs[k].at = 0 THEN refs[k] ELSE Ref(refs[k].at + 1, refs[k].val)]

\* the references after the length check of addOrMoveToFront
RefsAfterEnforceMaxLength(refs, list) ==
    IF Len(list) > MAX_FILES THEN RefsAfterSplice(refs, list, Len(list)) ELSE refs

\* addOrMoveToFront: the objects are changed in place, removed and added
\* as the four steps do
RefsAfterAddOrMoveToFront(refs, list, editor) ==
    LET deactivated == DeactivatePrevious(list)
        p == editor.uri.fsPath
    IN  RefsAfterEnforceMaxLength(
            RefsAfterUnshift(
                RefsAfterSplice(refs, deactivated, IndexOfPath(deactivated, p))),
            Unshift(RemoveExisting(deactivated, p), p, 0))

RefsAfterRemove(refs, list, uri) ==
    RefsAfterSplice(refs, list, IndexOfPath(list, uri.fsPath))

RECURSIVE RefsAfterRemoveAll(_, _, _)
RefsAfterRemoveAll(refs, list, uris) ==
    IF uris = <<>> THEN refs
    ELSE IF isFileUri(Head(uris))
         THEN RefsAfterRemoveAll(RefsAfterRemove(refs, list, Head(uris)),
                                 remove(list, Head(uris)), Tail(uris))
         ELSE RefsAfterRemoveAll(refs, list, Tail(uris))

RECURSIVE RefsAfterRenameAll(_, _, _)
RefsAfterRenameAll(refs, list, pairs) ==
    IF pairs = <<>> THEN refs
    ELSE LET o == Head(pairs).oldUri
             n == Head(pairs).newUri
         IN  IF ~isFileUri(o) THEN RefsAfterRenameAll(refs, list, Tail(pairs))
             ELSE IF isFileUri(n)
                  THEN RefsAfterRenameAll(refs, rename(list, o, n), Tail(pairs))
                  ELSE RefsAfterRenameAll(RefsAfterRemove(refs, list, o),
                                          remove(list, o), Tail(pairs))

\* the state held by a caller, its array followed through a handler
Held(held, refs) ==
    IF held = None THEN None ELSE Some([held[1] EXCEPT !.refs = refs])
HeldRefs(held) == IF held = None THEN <<>> ELSE held[1].refs

(***************************************************************************)
(* Timers of the event loop                                                *)
(***************************************************************************)
\* clearTimeout(h): no effect when h is undefined or is no longer pending
ClearTimeout(ts, h) == [k \in DOMAIN ts \ {h} |-> ts[k]]

\* the handle setTimeout returns: one that is not pending
NewHandle(ts) == CHOOSE h \in 1..(Cardinality(DOMAIN ts) + 1) : h \notin DOMAIN ts

SetTimeout(ts, h, due) == [k \in DOMAIN ts \cup {h} |-> IF k = h THEN due ELSE ts[k]]

\* a variant that leaves the pending timeout in place
DebouncedTimers_NotCleared(ts, h) == ts

\* fireWithDebounce: the pending timeouts after the call
DebouncedTimers(ts, h) == ClearTimeout(ts, h)

(***************************************************************************)
(* IDEServer: notifications                                                *)
(***************************************************************************)
EmptyMap == [k \in {} |-> <<>>]

\* transport.send(message): the message is handed to the transport, the
\* promise it returns is fulfilled or rejected
TransportSend(ob, up, sid, msg) ==
    [ob EXCEPT ![sid] = Append(@, [msg |-> msg, ok |-> up[sid]])]

\* a variant that sends to the first transport of the table only
SendToEach_FirstOnly(ob, up, sids, msg) ==
    IF sids = <<>> THEN ob ELSE TransportSend(ob, up, Head(sids), msg)

\* a variant that a failing send ends
RECURSIVE SendToEach_StopAtFailure(_, _, _, _)
SendToEach_StopAtFailure(ob, up, sids, msg) ==
    IF sids = <<>> THEN ob
    ELSE IF up[Head(sids)]
         THEN SendToEach_StopAtFailure(TransportSend(ob, up, Head(sids), msg),
                                       up, Tail(sids), msg)
         ELSE TransportSend(ob, up, Head(sids), msg)

\* for (const transport of Object.values(this.transports)) send(message)
RECURSIVE SendToEach(_, _, _, _)
SendToEach(ob, up, sids, msg) ==
    IF sids = <<>> THEN ob
    ELSE SendToEach(TransportSend(ob, up, Head(sids), msg), up, Tail(sids), msg)

ContextUpdate(list, trusted) ==
    [method |-> "ide/contextUpdate", params |-> StateOf(list, trusted)]

\* a variant that sends nothing
broadcastIdeContextUpdate_Silent(ob, up, sids, list, trusted) == ob

broadcastIdeContextUpdate(ob, up, sids, list, trusted) ==
    SendToEach(ob, up, sids, ContextUpdate(list, trusted))

(***************************************************************************)
(* Maps                                                                    *)
(***************************************************************************)
MapPut(f, k, v) == [x \in DOMAIN f \cup {k} |-> IF x = k THEN v ELSE f[x]]
MapDel(f, k) == [x \in DOMAIN f \ {k} |-> f[x]]

\* a Map that keeps insertion order: a sequence of [key, value]
Keys(m) == {m[i].key : i \in DOMAIN m}
IndexOfKey(m, k) ==
    IF k \in Keys(m) THEN CHOOSE i \in DOMAIN m : m[i].key = k ELSE 0
\* Map.prototype.get, as an optional value
MapGet(m, k) == IF k \in Keys(m) THEN Some(m[IndexOfKey(m, k)].value) ELSE None
\* Map.prototype.set: a known key keeps its place
MapSet(m, k, v) ==
    IF k \in Keys(m)
    THEN [m EXCEPT ![IndexOfKey(m, k)].value = v]
    ELSE Append(m, [key |-> k, value |-> v])
\* Map.prototype.delete
MapDelete(m, k) == IF k \in Keys(m) THEN Splice(m, IndexOfKey(m, k)) ELSE m

(***************************************************************************)
(* DiffContentProvider and the editor's documents                          *)
(***************************************************************************)
DIFF_SCHEME == "gemini-diff"

\* provideTextDocumentContent: content.get(uri) ?? ''
provideTextDocumentContent(pc, uri) == IF uri \in DOMAIN pc THEN pc[uri] ELSE ""

\* a variant that keeps the content
deleteContent_Kept(pc, uri) == pc

\* deleteContent: content.delete(uri)
deleteContent(pc, uri) == [x \in DOMAIN pc \ {uri} |-> pc[x]]

\* a variant that loads the document anew each time, dropping the user's edits
openTextDocument_Reloaded(ds, pc, uri) ==
    MapPut(ds, uri, provideTextDocumentContent(pc, uri))

\* vscode.workspace.openTextDocument(uri): the open document, or one loaded
\* from the content provider
openTextDocument(ds, pc, uri) ==
    IF uri \in DOMAIN ds THEN ds
    ELSE MapPut(ds, uri, provideTextDocumentContent(pc, uri))

(***************************************************************************)
(* DiffManager                                                             *)
(***************************************************************************)
\* a variant without the random component of the query
RightDocUri_NoRand(filePath, r) == [scheme |-> DIFF_SCHEME, path |-> filePath, query |-> 0]

\* a variant that numbers a diff by the diffs that are open
RightDocUri_OpenCount(filePath, r) ==
    [scheme |-> DIFF_SCHEME, path |-> filePath, query |-> Len(diffDocuments)]

\* Uri.from({scheme: DIFF_SCHEME, path: filePath, query: `rand=${r}`});
\* r is the value Math.random() returned, taken to differ from call to call
RightDocUri(filePath, r) == [scheme |-> DIFF_SCHEME, path |-> filePath, query |-> r]

DiffInfo(filePath, newContent, uri) ==
    [originalFilePath |-> filePath, newContent |-> newContent, rightDocUri |-> uri]

DiffAccepted(filePath, content) ==
    [method |-> "ide/diffAccepted", params |-> [filePath |-> filePath, content |-> content]]

DiffClosed(filePath, content) ==
    [method |-> "ide/diffClosed", params |-> [filePath |-> filePath, content |-> content]]

\* a variant that takes the diff of the file opened last
FirstDiffOf_Last(m, filePath) ==
    IF \E i \in DOMAIN m : m[i].value.originalFilePath = filePath
    THEN Some(m[CHOOSE i \in DOMAIN m :
                    /\ m[i].value.originalFilePath = filePath
                    /\ \A j \in (i + 1)..Len(m) : m[j].value.originalFilePath # filePath].key)
    ELSE None

\* closeDiff: the first diff of the Map whose originalFilePath is filePath
FirstDiffOf(m, filePath) ==
    IF \E i \in DOMAIN m : m[i].value.originalFilePath = filePath
    THEN Some(m[CHOOSE i \in DOMAIN m :
                    /\ m[i].value.originalFilePath = filePath
                    /\ \A j \in 1..(i - 1) : m[j].value.originalFilePath # filePath].key)
    ELSE None

\* a call under way: the method, where it stands, and its locals
Task(op, pc, uri, filePath, suppress, info) ==
    [op |-> op, pc |-> pc, uri |-> uri, filePath |-> filePath,
     suppress |-> suppress, info |-> info, content |-> "", hadInfo |-> FALSE]

\* a variant whose lookup finds nothing
closeDiffEditorLookup_Absent(m, task) == [task EXCEPT !.hadInfo = FALSE]

\* closeDiffEditor up to its first await: the lookup of the diff
closeDiffEditorLookup(m, task) == [task EXCEPT !.hadInfo = task.uri \in Keys(m)]

\* DiffManager.onDidChange fires: the IDEServer's subscriber sends the
\* notification to every transport of the session table
Emit(n) ==
    /\ emitted' = Append(emitted, n)
    /\ outbox' = SendToEach(outbox, linkUp, transports, n)

NoEmit == UNCHANGED <<emitted, outbox>>

\* showDiff up to its first await
showDiff(filePath, newContent) ==
    LET uri == RightDocUri(filePath, Len(issued) + 1)
    IN  /\ issued' = Append(issued, uri)
        /\ providerContent' = MapPut(providerContent, uri, newContent)
        /\ diffDocuments' = MapSet(diffDocuments, uri, DiffInfo(filePath, newContent, uri))
        /\ tasks' = Append(tasks, Task("showDiff", "diff", uri, filePath, FALSE, None))
        /\ UNCHANGED <<docs, tabs, emitted, outcomes, lastReturn, accepted, acceptedAgain>>

\* the tool openDiff is called
ShowDiff(filePath, newContent) ==
    /\ showDiff(filePath, newContent)
    /\ lastOp' = "showDiff"
    /\ UNCHANGED <<aggVars, envVars, aggHist, sessVars, outbox>>

\* showDiff: the command vscode.diff opens the tab and loads the right side
ShowDiffOpen(k) ==
    /\ tasks[k].op = "showDiff" /\ tasks[k].pc = "diff"
    /\ tabs' = tabs \cup {tasks[k].uri}
    /\ docs' = openTextDocument(docs, providerContent, tasks[k].uri)
    /\ tasks' = [tasks EXCEPT ![k].pc = "writable"]
    /\ lastOp' = "showDiff.open"
    /\ UNCHANGED <<aggVars, envVars, aggHist, sessVars>>
    /\ UNCHANGED <<accepted, acceptedAgain>>
    /\ UNCHANGED <<diffDocuments, providerContent, issued, emitted, outcomes, lastReturn, outbox>>

\* showDiff returns
ShowDiffDone(k) ==
    /\ tasks[k].op = "showDiff" /\ tasks[k].pc = "writable"
    /\ tasks' = Splice(tasks, k)
    /\ lastOp' = "showDiff.done"
    /\ UNCHANGED <<aggVars, envVars, aggHist, sessVars>>
    /\ UNCHANGED <<accepted, acceptedAgain>>
    /\ UNCHANGED <<diffDocuments, providerContent, issued, docs, tabs,
                   emitted, outcomes, lastReturn, outbox>>

\* a variant without the early return for an unknown diff
AcceptDiff_NoEarlyReturn(uri) ==
    /\ tasks' = Append(tasks, Task("acceptDiff", "open", uri, "", FALSE,
                                   Some(DiffInfo(uri.path, "", uri))))
    /\ lastOp' = "acceptDiff"
    /\ UNCHANGED <<aggVars, envVars, aggHist, sessVars>>
    /\ UNCHANGED <<accepted, acceptedAgain>>
    /\ UNCHANGED <<diffDocuments, providerContent, issued, docs, tabs,
                   emitted, outcomes, lastReturn, outbox>>

\* acceptDiff up to its first await
AcceptDiff(uri) ==
    LET info == MapGet(diffDocuments, uri)
    IN  /\ tasks' = IF info = None THEN tasks
                    ELSE Append(tasks, Task("acceptDiff", "open", uri, "", FALSE, info))
        /\ lastOp' = IF info = None THEN "acceptDiff.absent" ELSE "acceptDiff"
        /\ UNCHANGED <<aggVars, envVars, aggHist, sessVars>>
        /\ acceptedAgain' = IF uri \in accepted THEN acceptedAgain \cup {uri}
                            ELSE acceptedAgain
        /\ UNCHANGED accepted
        /\ UNCHANGED <<diffDocuments, providerContent, issued, docs, tabs,
                       emitted, outcomes, lastReturn, outbox>>

\* cancelDiff up to its first await; for an unknown diff that is the await
\* inside closeDiffEditor
CancelDiff(uri) ==
    LET info == MapGet(diffDocuments, uri)
    IN  /\ tasks' = Append(tasks,
                       IF info = None
                       THEN Task("cancelDiff", "close", uri, "", FALSE, None)
                       ELSE Task("cancelDiff", "open", uri, "", FALSE, info))
        /\ lastOp' = IF info = None THEN "cancelDiff.absent" ELSE "cancelDiff"
        /\ UNCHANGED <<aggVars, envVars, aggHist, sessVars>>
        /\ UNCHANGED <<accepted, acceptedAgain>>
        /\ UNCHANGED <<diffDocuments, providerContent, issued, docs, tabs,
                       emitted, outcomes, lastReturn, outbox>>

\* closeDiff up to its first await
closeDiff(filePath, suppressNotification) ==
    LET found == FirstDiffOf(diffDocuments, filePath)
    IN  /\ tasks' = IF found = None THEN tasks
                    ELSE Append(tasks, Task("closeDiff", "open", found[1], filePath,
                                            suppressNotification, None))
        /\ lastReturn' = IF found = None THEN None ELSE lastReturn
        /\ UNCHANGED <<diffDocuments, providerContent, issued, docs, tabs,
                       emitted, outcomes, accepted, acceptedAgain>>

\* the tool closeDiff is called
CloseDiff(filePath, suppressNotification) ==
    /\ closeDiff(filePath, suppressNotification)
    /\ lastOp' = IF FirstDiffOf(diffDocuments, filePath) = None
                 THEN "closeDiff.absent" ELSE "closeDiff"
    /\ UNCHANGED <<aggVars, envVars, aggHist, sessVars, outbox>>

\* accept, cancel, closeDiff: openTextDocument has resolved; the text is
\* read and closeDiffEditor runs up to its first await
ReadBack(k) ==
    /\ tasks[k].pc = "open"
    /\ docs' = openTextDocument(docs, providerContent, tasks[k].uri)
    /\ tasks' = [tasks EXCEPT ![k] =
                    closeDiffEditorLookup(diffDocuments,
                        [@ EXCEPT !.content = docs'[tasks[k].uri], !.pc = "close"])]
    /\ lastOp' = "readBack"
    /\ UNCHANGED <<aggVars, envVars, aggHist, sessVars>>
    /\ UNCHANGED <<accepted, acceptedAgain>>
    /\ UNCHANGED <<diffDocuments, providerContent, issued, tabs,
                   emitted, outcomes, lastReturn, outbox>>

\* closeDiffEditor after setContext: the record and the cached content are
\* deleted, and the tab of the diff, if there is one, is asked to close
Teardown(k) ==
    /\ tasks[k].pc = "close"
    /\ diffDocuments' = IF tasks[k].hadInfo THEN MapDelete(diffDocuments, tasks[k].uri)
                        ELSE diffDocuments
    /\ providerContent' = IF tasks[k].hadInfo
                          THEN deleteContent(providerContent, tasks[k].uri)
                          ELSE providerContent
    /\ tasks' = [tasks EXCEPT ![k].pc = IF tasks[k].uri \in tabs THEN "closing" ELSE "fire"]
    /\ lastOp' = "teardown"
    /\ UNCHANGED <<aggVars, envVars, aggHist, sessVars>>
    /\ UNCHANGED <<accepted, acceptedAgain>>
    /\ UNCHANGED <<issued, docs, tabs, emitted, outcomes, lastReturn, outbox>>

\* tabGroups.close(tab) has closed the tab
TabClosed(k) ==
    /\ tasks[k].pc = "closing"
    /\ tabs' = tabs \ {tasks[k].uri}
    /\ tasks' = [tasks EXCEPT ![k].pc = "fire"]
    /\ lastOp' = "tabClosed"
    /\ UNCHANGED <<aggVars, envVars, aggHist, sessVars>>
    /\ UNCHANGED <<accepted, acceptedAgain>>
    /\ UNCHANGED <<diffDocuments, providerContent, issued, docs,
                   emitted, outcomes, lastReturn, outbox>>

\* a variant that fires whatever the flag says
Notifies_Always(suppressNotification) == TRUE

\* closeDiff: if (!suppressNotification) fire
Notifies(suppressNotification) == ~suppressNotification

\* a variant in which acceptDiff applies the accepted text to the file
WrittenBy_Applied(files, t) ==
    IF t.op = "acceptDiff"
    THEN [files EXCEPT ![t.info[1].originalFilePath] = t.content]
    ELSE files

\* the files of the workspace after accept, cancel or closeDiff: the methods
\* call no function of fs or workspace.fs, the text goes into the event only
WrittenBy(files, t) == files

\* the rest of the method after closeDiffEditor has returned
Finish(k) ==
    LET t == tasks[k]
    IN  /\ t.pc = "fire"
        /\ CASE t.op = "acceptDiff" ->
                    /\ Emit(DiffAccepted(t.info[1].originalFilePath, t.content))
                    /\ UNCHANGED lastReturn
             [] t.op = "cancelDiff" /\ t.info # None ->
                    /\ Emit(DiffClosed(t.info[1].originalFilePath, t.content))
                    /\ UNCHANGED lastReturn
             [] t.op = "cancelDiff" /\ t.info = None ->
                    /\ NoEmit
                    /\ UNCHANGED lastReturn
             [] t.op = "closeDiff" ->
                    /\ IF Notifies(t.suppress)
                       THEN Emit(DiffClosed(t.filePath, t.content))
                       ELSE NoEmit
                    /\ lastReturn' = Some(t.content)
        /\ outcomes' = IF t.op = "cancelDiff" /\ t.info = None THEN outcomes
                       ELSE Append(outcomes,
                                   [uri |-> t.uri,
                                    outcome |-> IF emitted' = emitted THEN "silent"
                                                ELSE emitted'[Len(emitted')].method])
        /\ tasks' = Splice(tasks, k)
        /\ lastOp' = CASE t.op = "acceptDiff" -> "acceptDiff.done"
                        [] t.op = "cancelDiff" -> "cancelDiff.done"
                        [] t.op = "closeDiff" -> "closeDiff.done"
        /\ disk' = WrittenBy(disk, t)
        /\ UNCHANGED <<server, workspaceFolders, discoveryFiles, environment,
                       writes, stopTask>>
        /\ UNCHANGED <<aggVars, now, isTrusted, aggHist, sessVars>>
        /\ accepted' = IF t.op = "acceptDiff" THEN accepted \cup {t.uri} ELSE accepted
        /\ UNCHANGED acceptedAgain
        /\ UNCHANGED <<diffDocuments, providerContent, issued, docs, tabs>>

\* ---- the editor and its user
\* the user types in the right side of a diff
UserEdits(uri, text) ==
    /\ uri \in tabs /\ uri \in DOMAIN docs
    /\ docs[uri] # text
    /\ docs' = [docs EXCEPT ![uri] = text]
    /\ lastOp' = "edit"
    /\ UNCHANGED <<aggVars, envVars, aggHist, sessVars>>
    /\ UNCHANGED <<accepted, acceptedAgain>>
    /\ UNCHANGED <<diffDocuments, providerContent, issued, tasks, tabs,
                   emitted, outcomes, lastReturn, outbox>>

\* the user closes the tab of a diff
UserClosesTab(uri) ==
    /\ uri \in tabs
    /\ tabs' = tabs \ {uri}
    /\ lastOp' = "closeTab"
    /\ UNCHANGED <<aggVars, envVars, aggHist, sessVars>>
    /\ UNCHANGED <<accepted, acceptedAgain>>
    /\ UNCHANGED <<diffDocuments, providerContent, issued, tasks, docs,
                   emitted, outcomes, lastReturn, outbox>>

\* the editor disposes of a diff document no tab shows: onDidCloseTextDocument
\* of the extension calls cancelDiff
OnDidCloseDiffDocument(uri) ==
    /\ uri \in DOMAIN docs /\ uri \notin tabs
    /\ uri.scheme = DIFF_SCHEME
    /\ docs' = MapDel(docs, uri)
    /\ LET info == MapGet(diffDocuments, uri)
       IN  tasks' = Append(tasks,
                       IF info = None
                       THEN Task("cancelDiff", "close", uri, "", FALSE, None)
                       ELSE Task("cancelDiff", "open", uri, "", FALSE, info))
    /\ lastOp' = "docClosed"
    /\ UNCHANGED <<aggVars, envVars, aggHist, sessVars>>
    /\ UNCHANGED <<accepted, acceptedAgain>>
    /\ UNCHANGED <<diffDocuments, providerContent, issued, tabs,
                   emitted, outcomes, lastReturn, outbox>>

(***************************************************************************)
(* IDEServer: access control and session routing                           *)
(***************************************************************************)
\* An HTTP request is a record: method, path, body (what express.json makes
\* of it: "none", "malformed", or the kind of JSON-RPC call), and the
\* headers origin, host (name and port), authorization (the parts between
\* the spaces of its value) and sid (mcp-session-id), each optional.

\* the port the server listens on, and the token made at start
port == 3000
authToken == "token"

Response(status, kind, text, code) ==
    [status |-> status, kind |-> kind, text |-> text, code |-> code]

\* express.json rejects a body that is no JSON; the error middleware hands
\* the error on, and the response is the parser error's, 400
ParseFailed == Response(400, "parser", "Bad Request", 0)
DeniedByCors == Response(403, "json", "Request denied by CORS policy.", 0)
InvalidHost == Response(403, "json", "Invalid Host header", 0)
Unauthorized == Response(401, "text", "Unauthorized", 0)
NoValidSessionId ==
    Response(400, "jsonrpc",
             "Bad Request: No valid session ID provided for non-initialize request.",
             0 - 32000)
InvalidOrMissingSessionId == Response(400, "text", "Invalid or missing session ID", 0)
BadRequest == Response(400, "text", "Bad Request", 0)
InternalServerError == Response(500, "jsonrpc", "Internal server error", 0 - 32603)
NotFound == Response(404, "html", "Not Found", 0)
\* transport.handleRequest writes the response
ByTransport == Response(200, "transport", "", 0)

\* a header that is undefined or the empty string is falsy
Falsy(header) == header = None \/ header = Some("")

jsonParser(req) ==
    IF req.body = "malformed" THEN Some(ParseFailed) ELSE None

\* cors: origin(origin, callback); the error middleware answers a CORSError
corsOrigin(req) ==
    IF Falsy(req.origin) THEN None ELSE Some(DeniedByCors)

allowedHosts ==
    {[name |-> "localhost", port |-> port], [name |-> "127.0.0.1", port |-> port]}

hostCheck(req) ==
    IF req.host # None /\ req.host[1] \in allowedHosts THEN None
    ELSE Some(InvalidHost)

\* a variant that takes any two-part Bearer header
bearerAuth_AnyToken(req) ==
    IF req.authorization = None \/ req.authorization = Some(<<"">>)
    THEN Some(Unauthorized)
    ELSE IF Len(req.authorization[1]) # 2 \/ req.authorization[1][1] # "Bearer"
         THEN Some(Unauthorized)
         ELSE None

\* the Authorization header must be "Bearer <authToken>"
bearerAuth(req) ==
    IF req.authorization = None \/ req.authorization = Some(<<"">>)
    THEN Some(Unauthorized)
    ELSE IF Len(req.authorization[1]) # 2 \/ req.authorization[1][1] # "Bearer"
         THEN Some(Unauthorized)
         ELSE IF req.authorization[1][2] # authToken
              THEN Some(Unauthorized)
              ELSE None

\* a variant that checks the token before the host
Middleware_TokenFirst(req) ==
    IF jsonParser(req) # None THEN jsonParser(req)
    ELSE IF corsOrigin(req) # None THEN corsOrigin(req)
    ELSE IF bearerAuth(req) # None THEN bearerAuth(req)
    ELSE hostCheck(req)

\* the middleware in the order of app.use: the response of the first one
\* that ends the request, or None when the request gets to the routes
Middleware(req) ==
    IF jsonParser(req) # None THEN jsonParser(req)
    ELSE IF corsOrigin(req) # None THEN corsOrigin(req)
    ELSE IF hostCheck(req) # None THEN hostCheck(req)
    ELSE bearerAuth(req)

\* what a plain object inherits from Object.prototype
ObjectPrototypeKeys ==
    {"constructor", "__proto__", "toString", "valueOf", "hasOwnProperty"}

\* this.transports[sessionId]: a transport of the table, a member inherited
\* from Object.prototype, or undefined
TransportsAt(table, sessionId) ==
    IF \E i \in DOMAIN table : table[i] = sessionId THEN "transport"
    ELSE IF sessionId \in ObjectPrototypeKeys THEN "inherited"
    ELSE "undefined"

\* session ids are made by randomUUID(), taken to differ from call to call
SessionIds == <<"s1", "s2", "s3", "s4">>
NewSessionId == SessionIds[Cardinality(DOMAIN outbox) + 1]

\* a variant in which a new transport is handed the diff outcomes fired so far
NewOutbox_Replayed(events) == [i \in DOMAIN events |-> [msg |-> events[i], ok |-> TRUE]]

\* what a new transport has been handed: nothing; the subscriber of
\* diffManager.onDidChange sends to the transports of the table at the time
\* of the event and keeps nothing
NewOutbox(events) == <<>>

\* the arguments of the tool calls
ToolFilePath == "a.txt"
ToolNewContent == "x"

NoDiffCall ==
    UNCHANGED <<diffDocuments, providerContent, issued, tasks, docs, tabs,
                emitted, outcomes, lastReturn, accepted, acceptedAgain>>

NoSessionChange ==
    UNCHANGED <<transports, sessionsWithInitialNotification, keepAlive, missedPings,
                getCalls, firstContexts, linkUp>>

\* a variant that takes every body for an initialize request
isInitializeRequest_Any(body) == TRUE

\* isInitializeRequest(req.body)
isInitializeRequest(body) == body = "initialize"

\* POST /mcp
PostMcp(req) ==
    LET at == IF Falsy(req.sid) THEN "undefined"
              ELSE TransportsAt(transports, req.sid[1])
    IN  IF ~Falsy(req.sid) /\ at = "transport"
        THEN \* transport.handleRequest runs the call
             /\ CASE req.body = "openDiff" -> showDiff(ToolFilePath, ToolNewContent)
                  [] req.body = "closeDiff" -> closeDiff(ToolFilePath, FALSE)
                  [] OTHER -> NoDiffCall
             /\ NoSessionChange
             /\ UNCHANGED outbox
             /\ lastRes' = ByTransport
        ELSE IF ~Falsy(req.sid) /\ at = "inherited"
        THEN \* handleRequest is no function of the inherited member
             /\ NoDiffCall
             /\ NoSessionChange
             /\ UNCHANGED outbox
             /\ lastRes' = InternalServerError
        ELSE IF Falsy(req.sid) /\ isInitializeRequest(req.body)
        THEN \* a new transport; onsessioninitialized puts it in the table,
             \* and its keep-alive interval is set
             /\ transports' = Append(transports, NewSessionId)
             /\ linkUp' = MapPut(linkUp, NewSessionId, TRUE)
             /\ outbox' = MapPut(outbox, NewSessionId, NewOutbox(emitted))
             /\ keepAlive' = keepAlive \cup {NewSessionId}
             /\ missedPings' = MapPut(missedPings, NewSessionId, 0)
             /\ firstContexts' = MapPut(firstContexts, NewSessionId, 0)
             /\ UNCHANGED <<sessionsWithInitialNotification, getCalls>>
             /\ NoDiffCall
             /\ lastRes' = ByTransport
        ELSE /\ NoDiffCall
             /\ NoSessionChange
             /\ UNCHANGED outbox
             /\ lastRes' = NoValidSessionId

\* a variant that sends the first context whatever the set holds
NeedsInitialNotification_Always(sent, sessionId) == TRUE

\* !sessionsWithInitialNotification.has(sessionId)
NeedsInitialNotification(sent, sessionId) == sessionId \notin sent

\* GET /mcp: handleSessionRequest up to its await of transport.handleRequest
handleSessionRequest(req) ==
    LET at == IF Falsy(req.sid) THEN "undefined"
              ELSE TransportsAt(transports, req.sid[1])
    IN  /\ NoDiffCall
        /\ UNCHANGED <<transports, linkUp, keepAlive, missedPings, firstContexts,
                       sessionsWithInitialNotification, outbox>>
        /\ IF Falsy(req.sid) \/ at = "undefined"
           THEN /\ lastRes' = InvalidOrMissingSessionId
                /\ UNCHANGED getCalls
           ELSE IF at = "inherited"
           THEN \* handleRequest and send are no functions of the member
                /\ lastRes' = BadRequest
                /\ UNCHANGED getCalls
           ELSE /\ lastRes' = ByTransport
                /\ getCalls' = Append(getCalls, req.sid[1])

\* handleSessionRequest after the await: the first context of the session
InitialNotification(k) ==
    LET sessionId == getCalls[k]
    IN  /\ getCalls' = Splice(getCalls, k)
        /\ IF NeedsInitialNotification(sessionsWithInitialNotification, sessionId)
           THEN /\ outbox' = TransportSend(outbox, linkUp, sessionId,
                                           ContextUpdate(openFiles, isTrusted))
                /\ sessionsWithInitialNotification' =
                       sessionsWithInitialNotification \cup {sessionId}
                /\ firstContexts' = [firstContexts EXCEPT ![sessionId] = @ + 1]
                /\ lastOp' = "firstContext"
           ELSE /\ UNCHANGED <<outbox, sessionsWithInitialNotification, firstContexts>>
                /\ lastOp' = "firstContext.skipped"
        /\ UNCHANGED <<aggVars, envVars, aggHist, diffVars, transports, keepAlive,
                       missedPings, linkUp, lastReq, lastRes>>

\* the server handles one request
Request(req) ==
    /\ lastReq = None
    /\ lastOp' = "request"
    /\ lastReq' = Some(req)
    /\ UNCHANGED <<aggVars, envVars, aggHist>>
    /\ IF Middleware(req) # None
       THEN /\ lastRes' = Middleware(req)[1]
            /\ NoDiffCall
            /\ NoSessionChange
            /\ UNCHANGED outbox
       ELSE IF req.path = "/mcp" /\ req.method = "POST" THEN PostMcp(req)
       ELSE IF req.path = "/mcp" /\ req.method = "GET" THEN handleSessionRequest(req)
       ELSE /\ lastRes' = NotFound
            /\ NoDiffCall
            /\ NoSessionChange
            /\ UNCHANGED outbox

\* the exchange is over: the history forgets it
ResponseSent ==
    /\ lastReq # None
    /\ lastReq' = None
    /\ lastRes' = None
    /\ lastOp' = "responded"
    /\ UNCHANGED <<aggVars, envVars, aggHist, diffVars, transports,
                   sessionsWithInitialNotification, keepAlive, missedPings,
                   getCalls, firstContexts, linkUp, outbox>>

\* a variant that leaves the interval set
ClearInterval_Kept(intervals, sid) == intervals

\* clearInterval(keepAlive)
ClearInterval(intervals, sid) == intervals \ {sid}

\* transport.onclose
\* a variant in which the close of a session drops the diffs
TransportClosed_DropsDiffs(sid) ==
    /\ \E i \in DOMAIN transports : transports[i] = sid
    /\ transports' = SelectSeq(transports, LAMBDA s : s # sid)
    /\ sessionsWithInitialNotification' = sessionsWithInitialNotification \ {sid}
    /\ keepAlive' = ClearInterval(keepAlive, sid)
    /\ diffDocuments' = <<>>
    /\ providerContent' = EmptyMap
    /\ lastOp' = "sessionClosed"
    /\ UNCHANGED <<aggVars, envVars, aggHist, issued, tasks, docs, tabs, emitted,
                   outcomes, lastReturn, accepted, acceptedAgain>>
    /\ UNCHANGED <<missedPings, getCalls, firstContexts, linkUp, lastReq, lastRes, outbox>>

TransportClosed(sid) ==
    /\ \E i \in DOMAIN transports : transports[i] = sid
    /\ transports' = SelectSeq(transports, LAMBDA s : s # sid)
    /\ sessionsWithInitialNotification' = sessionsWithInitialNotification \ {sid}
    /\ keepAlive' = ClearInterval(keepAlive, sid)
    /\ lastOp' = "sessionClosed"
    /\ UNCHANGED <<aggVars, envVars, aggHist, diffVars, missedPings, getCalls,
                   firstContexts, linkUp, lastReq, lastRes, outbox>>

\* the stream of a session breaks: from now on a send on it fails
LinkDown(sid) ==
    /\ sid \in DOMAIN linkUp /\ linkUp[sid]
    /\ linkUp' = [linkUp EXCEPT ![sid] = FALSE]
    /\ lastOp' = "linkDown"
    /\ UNCHANGED <<aggVars, envVars, aggHist, diffVars, transports,
                   sessionsWithInitialNotification, keepAlive, missedPings,
                   getCalls, firstContexts, lastReq, lastRes, outbox>>

\* the stream of a session is back: a send on it succeeds again
LinkRestored(sid) ==
    /\ sid \in DOMAIN linkUp /\ ~linkUp[sid]
    /\ linkUp' = [linkUp EXCEPT ![sid] = TRUE]
    /\ lastOp' = "linkRestored"
    /\ UNCHANGED <<aggVars, envVars, aggHist, diffVars, transports,
                   sessionsWithInitialNotification, keepAlive, missedPings,
                   getCalls, firstContexts, lastReq, lastRes, outbox>>

\* the keep-alive interval: three missed pings in a row clear it
MISSED_PINGS_LIMIT == 3

Ping == [method |-> "ping"]

\* a variant that never resets the count
MissedAfter_NoReset(missed, ok) == IF ok THEN missed ELSE missed + 1

\* .then: missedPings = 0; .catch: missedPings++
MissedAfter(missed, ok) == IF ok THEN 0 ELSE missed + 1

\* the interval of a session fires: a ping is sent on its transport, and
\* the promise of the send is settled
KeepAlive(sid) ==
    /\ sid \in keepAlive
    /\ outbox' = TransportSend(outbox, linkUp, sid, Ping)
    /\ missedPings' = [missedPings EXCEPT ![sid] = MissedAfter(@, linkUp[sid])]
    /\ keepAlive' = IF ~linkUp[sid] /\ missedPings'[sid] >= MISSED_PINGS_LIMIT
                    THEN ClearInterval(keepAlive, sid)
                    ELSE keepAlive
    /\ lastOp' = "ping"
    /\ UNCHANGED <<aggVars, envVars, aggHist, diffVars, transports,
                   sessionsWithInitialNotification, getCalls, firstContexts,
                   linkUp, lastReq, lastRes>>

InitDiffManager ==
    /\ diffDocuments = <<>>
    /\ providerContent = EmptyMap
    /\ issued = <<>>
    /\ tasks = <<>>
    /\ docs = EmptyMap
    /\ tabs = {}
    /\ emitted = <<>>
    /\ outcomes = <<>>
    /\ lastReturn = None
    /\ accepted = {}
    /\ acceptedAgain = {}

\* the discovery record: the file keyed by the port and the file keyed by
\* the parent process id
DiscoveryFileNames == {"portFile", "ppidPortFile"}

\* a variant that joins nothing: the first folder only
WorkspacePath_FirstOnly(folders) == IF folders = <<>> THEN "" ELSE folders[1]

\* writePortAndWorkspace: folders.map(f => f.uri.fsPath).join(path.delimiter),
\* '' without folders
RECURSIVE WorkspacePath(_)
WorkspacePath(folders) ==
    IF folders = <<>> THEN ""
    ELSE IF Len(folders) = 1 THEN folders[1]
    ELSE folders[1] \o ":" \o WorkspacePath(Tail(folders))

\* the host after activate: start has bound the port and its call of
\* writePortAndWorkspace has written both files
InitialFolders == <<"/w1">>
InitHost ==
    /\ disk = [p \in {"a.txt", "b.txt"} |-> "old"]
    /\ server = TRUE
    /\ workspaceFolders = InitialFolders
    /\ discoveryFiles = [f \in DiscoveryFileNames |-> Some(WorkspacePath(InitialFolders))]
    /\ environment = Some(WorkspacePath(InitialFolders))
    /\ writes = <<>>
    /\ stopTask = "idle"

InitNoSession ==
    /\ transports = <<>>
    /\ sessionsWithInitialNotification = {}
    /\ keepAlive = {}
    /\ missedPings = EmptyMap
    /\ getCalls = <<>>
    /\ firstContexts = EmptyMap
    /\ linkUp = EmptyMap
    /\ outbox = EmptyMap
    /\ lastReq = None
    /\ lastRes = None

(***************************************************************************)
(* Bounds and inputs of the aggregator                                     *)
(***************************************************************************)
MaxTime == 100
MaxRenames == 1

AggTicks == {DEBOUNCE_MS}

AggPaths == {"a", "b", "c"}
NonFileUri == [scheme |-> "untitled", fsPath |-> "a"]

Caret == [active |-> Some([line |-> 0, character |-> 0]), text |-> <<>>]
Selected == [active |-> Some([line |-> 4, character |-> 2]), text |-> Rep("x", 3)]
AggSelections == {Caret, Selected}

EditorOn(uri, sel) == [uri |-> uri, active |-> sel.active, text |-> sel.text]

AggUris == {FileUri(p) : p \in AggPaths} \cup {NonFileUri}
AggEditors == {EditorOn(u, s) : u \in AggUris, s \in AggSelections}

\* the batches of the delete and rename events
AggDeletes ==
    {<<>>, <<FileUri("a")>>, <<FileUri("b"), FileUri("c")>>,
     <<NonFileUri, FileUri("a")>>}

RenameTo(o, n) == [oldUri |-> o, newUri |-> n]

AggRenames ==
    {<<>>,
     <<RenameTo(FileUri("a"), FileUri("b"))>>,
     <<RenameTo(FileUri("b"), FileUri("c"))>>,
     <<RenameTo(FileUri("c"), NonFileUri)>>,
     <<RenameTo(NonFileUri, FileUri("c"))>>,
     <<RenameTo(FileUri("a"), FileUri("c")), RenameTo(FileUri("c"), FileUri("a"))>>}

\* files tracked before the run starts: activated in turn, none active now
Fillers == <<"f1", "f2", "f3", "f4", "f5", "f6", "f7", "f8">>
Prefilled ==
    [i \in DOMAIN Fillers |->
        [path |-> Fillers[i], timestamp |-> 0, isActive |-> FALSE,
         cursor |-> None, selectedText |-> None]]

(***************************************************************************)
(* OpenFilesManager: the handlers                                          *)
(***************************************************************************)
fireWithDebounce ==
    LET cleared == IF debounceTimer # 0
                   THEN DebouncedTimers(timers, debounceTimer)
                   ELSE timers
        h == NewHandle(cleared)
    IN  /\ timers' = SetTimeout(cleared, h, now + DEBOUNCE_MS)
        /\ debounceTimer' = h
        /\ lastMutationAt' = now
        /\ firesSinceMutation' = 0

OnDidChangeActiveTextEditor(ed) ==
    /\ ed # None
    /\ isFileUri(ed[1].uri)
    /\ openFiles' = addOrMoveToFront(openFiles, ed[1], now)
    /\ snapshot' = Held(snapshot,
                        RefsAfterAddOrMoveToFront(HeldRefs(snapshot), openFiles, ed[1]))
    /\ fireWithDebounce
    /\ afterLastEvent' = openFiles'
    /\ lastOp' = "activate"
    /\ UNCHANGED <<envVars, renames, diffVars, srvVars>>

OnDidChangeTextEditorSelection(ed) ==
    /\ isFileUri(ed.uri)
    /\ openFiles' = updateActiveContext(openFiles, ed)
    /\ UNCHANGED snapshot
    /\ fireWithDebounce
    /\ afterLastEvent' = openFiles'
    /\ lastOp' = "selection"
    /\ UNCHANGED <<envVars, renames, diffVars, srvVars>>

OnDidCloseTextDocument(uri) ==
    /\ isFileUri(uri)
    /\ openFiles' = remove(openFiles, uri)
    /\ snapshot' = Held(snapshot, RefsAfterRemove(HeldRefs(snapshot), openFiles, uri))
    /\ fireWithDebounce
    /\ afterLastEvent' = openFiles'
    /\ lastOp' = "close"
    /\ UNCHANGED <<envVars, renames, diffVars, srvVars>>

OnDidDeleteFiles(uris) ==
    /\ openFiles' = RemoveAll(openFiles, uris)
    /\ snapshot' = Held(snapshot, RefsAfterRemoveAll(HeldRefs(snapshot), openFiles, uris))
    /\ fireWithDebounce
    /\ afterLastEvent' = openFiles'
    /\ lastOp' = "delete"
    /\ UNCHANGED <<envVars, renames, diffVars, srvVars>>

OnDidRenameFiles(pairs) ==
    /\ renames < MaxRenames
    /\ renames' = renames + 1
    /\ openFiles' = RenameAll(openFiles, pairs)
    /\ snapshot' = Held(snapshot, RefsAfterRenameAll(HeldRefs(snapshot), openFiles, pairs))
    /\ fireWithDebounce
    /\ afterLastEvent' = openFiles'
    /\ lastOp' = "rename"
    /\ UNCHANGED <<envVars, diffVars, srvVars>>

\* the debounce timeout h is due: the changed signal fires, and its one
\* subscriber broadcasts the context
DebounceFire(h) ==
    /\ h \in DOMAIN timers
    /\ now >= timers[h]
    /\ timers' = ClearTimeout(timers, h)
    /\ firesSinceMutation' = firesSinceMutation + 1
    /\ outbox' = broadcastIdeContextUpdate(outbox, linkUp, transports,
                                           openFiles, isTrusted)
    /\ lastOp' = "changed"
    /\ UNCHANGED <<openFiles, debounceTimer, envVars, lastMutationAt,
                   afterLastEvent, renames, snapshot, diffVars, sessVars>>

\* a caller reads the state getter and keeps what it returns
ReadState ==
    /\ snapshot = None
    /\ snapshot' = Some([taken |-> StateOf(openFiles, isTrusted).workspaceState.openFiles,
                         refs |-> SpreadOf(openFiles)])
    /\ lastOp' = "state"
    /\ UNCHANGED <<aggVars, envVars, lastMutationAt, firesSinceMutation,
                   afterLastEvent, renames, diffVars, srvVars>>

Tick(dt) ==
    /\ now + dt <= MaxTime
    /\ now' = now + dt
    /\ UNCHANGED <<aggVars, isTrusted, hostVars, aggHist, lastOp, diffVars, srvVars>>

(***************************************************************************)
(* The aggregator on its own: no session is connected                      *)
(***************************************************************************)
\* the constructor: the active editor, if it shows a file, is tracked
Constructed(ed) ==
    IF ed # None /\ isFileUri(ed[1].uri)
    THEN addOrMoveToFront(<<>>, ed[1], 0)
    ELSE <<>>

InitAggregator(list) ==
    /\ openFiles = list
    /\ debounceTimer = 0
    /\ timers = EmptyMap
    /\ now = 0
    /\ lastMutationAt = 0
    /\ firesSinceMutation = 0
    /\ afterLastEvent = list
    /\ renames = 0
    /\ snapshot = None

InitAgg ==
    /\ \E list \in {Constructed(None), Constructed(Some(EditorOn(FileUri("a"), Selected))),
                      Prefilled} : InitAggregator(list)
    /\ isTrusted = TRUE
    /\ InitHost
    /\ lastOp = "init"
    /\ InitDiffManager
    /\ InitNoSession

NextAgg ==
    \/ \E ed \in AggEditors : OnDidChangeActiveTextEditor(Some(ed))
    \/ \E ed \in AggEditors : OnDidChangeTextEditorSelection(ed)
    \/ \E u \in AggUris : OnDidCloseTextDocument(u)
    \/ \E uris \in AggDeletes : OnDidDeleteFiles(uris)
    \/ \E pairs \in AggRenames : OnDidRenameFiles(pairs)
    \/ \E h \in DOMAIN timers : DebounceFire(h)
    \/ \E dt \in AggTicks : Tick(dt)

SpecAgg == InitAgg /\ [][NextAgg]_vars

(***************************************************************************)
(* Properties of the tracked-file list                                     *)
(***************************************************************************)
ActiveIndices(list) == {i \in DOMAIN list : list[i].isActive}

\* C1: for every sequence of activation, selection, close, delete and rename
\* events the tracked-file list holds at most MAX_FILES (10) entries and is
\* ordered most recently activated first: an entry never precedes one that
\* was activated (timestamped) later.
C1_BoundedMruOrder ==
    /\ Len(openFiles) <= MAX_FILES
    /\ \A i, j \in DOMAIN openFiles :
          i < j => openFiles[i].timestamp >= openFiles[j].timestamp

\* the list is full, its tail was evicted, and three activations at three
\* different times stand in order at the front
C1_Witness ==
    /\ lastOp = "activate"
    /\ Len(openFiles) = MAX_FILES
    /\ openFiles[1].timestamp > openFiles[2].timestamp
    /\ openFiles[2].timestamp > openFiles[3].timestamp
    /\ openFiles[MAX_FILES].path = Fillers[Len(Fillers) - 1]

\* the entry e of the list, deactivated
Cleared(e) == [e EXCEPT !.isActive = FALSE, !.cursor = None, !.selectedText = None]

\* a step that activates a file other than the active one
ActivatesAnother ==
    /\ lastOp' = "activate"
    /\ openFiles' # openFiles
    /\ IndexOfActive(openFiles) # 0
    /\ openFiles'[1].path # openFiles[IndexOfActive(openFiles)].path

\* C2: in every reachable state at most one tracked file is active; the
\* deactivation step that precedes marking a new entry active leaves no
\* active entry, and after the activation of a different file the entry
\* that was active stands in the list with its flag reset and its cursor
\* and selected text cleared.
C2_SingleActive ==
    /\ [](Cardinality(ActiveIndices(openFiles)) <= 1)
    /\ [](ActiveIndices(DeactivatePrevious(openFiles)) = {})
    /\ [][ActivatesAnother =>
            /\ Cardinality(ActiveIndices(openFiles')) = 1
            /\ openFiles'[1].isActive
            /\ \E j \in DOMAIN openFiles' :
                  /\ j > 1
                  /\ openFiles'[j] = Cleared(openFiles[IndexOfActive(openFiles)])]_vars

\* "b" was activated while "a" was active with a cursor: "a" stands second,
\* inactive, its cursor and selection cleared
C2_Witness ==
    /\ lastOp = "activate"
    /\ Len(openFiles) >= 2
    /\ openFiles[1].path = "b" /\ openFiles[1].isActive
    /\ openFiles[1].selectedText # None
    /\ openFiles[2].path = "a" /\ ~openFiles[2].isActive
    /\ openFiles[2].cursor = None /\ openFiles[2].selectedText = None

\* C27: in every reachable state an entry that is active, or has a cursor,
\* or has selected text, is the first entry of the list
C27_OnlyFrontCarriesContext ==
    \A i \in DOMAIN openFiles :
        (\/ openFiles[i].isActive
         \/ openFiles[i].cursor # None
         \/ openFiles[i].selectedText # None) => i = 1

\* "c" was activated after "b" and "a", each active with a cursor in its
\* turn: only "c" is active and has a cursor
C27_Witness ==
    /\ lastOp = "activate"
    /\ Len(openFiles) >= 3
    /\ openFiles[1].path = "c" /\ openFiles[1].isActive /\ openFiles[1].cursor # None
    /\ openFiles[2].path = "b" /\ openFiles[3].path = "a"
    /\ \A i \in 2..Len(openFiles) :
          /\ ~openFiles[i].isActive
          /\ openFiles[i].cursor = None /\ openFiles[i].selectedText = None

\* the indices of the entries with the path
Tracked(list, p) == {i \in DOMAIN list : list[i].path = p}

\* the list without its entry i
Without(list, i) == [k \in 1..(Len(list) - 1) |-> IF k < i THEN list[k] ELSE list[k + 1]]

\* the list after the files of a batch were removed one after the other
RECURSIVE WithoutFiles(_, _)
WithoutFiles(list, uris) ==
    IF uris = <<>> THEN list
    ELSE LET u == Head(uris)
         IN  IF u.scheme # "file" \/ Tracked(list, u.fsPath) = {}
             THEN WithoutFiles(list, Tail(uris))
             ELSE WithoutFiles(
                      Without(list, CHOOSE i \in Tracked(list, u.fsPath) :
                                        \A j \in Tracked(list, u.fsPath) : i <= j),
                      Tail(uris))

\* C28: the close of a document and the deletion of files take out of the
\* list the entry of each file that is tracked (the first one with its
\* path) and leave every other entry as it is and where it is relative to
\* the others; when none of the files is tracked the list is unchanged
C28_RemovalChangesNothingElse ==
    [][/\ \A u \in AggUris :
            OnDidCloseTextDocument(u) => openFiles' = WithoutFiles(openFiles, <<u>>)
       /\ \A uris \in AggDeletes :
            OnDidDeleteFiles(uris)
               => /\ openFiles' = WithoutFiles(openFiles, uris)
                  /\ (\A k \in DOMAIN uris : Tracked(openFiles, uris[k].fsPath) = {})
                        => openFiles' = openFiles]_vars

\* "b" and "c" were deleted in one batch from a list that tracked both
\* behind the active "a": "a" stands as it was, in front of the fillers
C28_Witness ==
    /\ lastOp = "delete"
    /\ Len(openFiles) = Len(Fillers) + 1
    /\ openFiles[1].path = "a" /\ openFiles[1].isActive /\ openFiles[1].selectedText # None
    /\ \A i \in DOMAIN Fillers : openFiles[i + 1] = Prefilled[i]

\* the list after the renames of a batch, one after the other
RECURSIVE Renamed(_, _)
Renamed(list, pairs) ==
    IF pairs = <<>> THEN list
    ELSE LET o == Head(pairs).oldUri
             n == Head(pairs).newUri
             at == Tracked(list, o.fsPath)
             i == CHOOSE i \in at : \A j \in at : i <= j
         IN  IF o.scheme # "file" \/ at = {} THEN Renamed(list, Tail(pairs))
             ELSE IF n.scheme = "file"
                  THEN Renamed([k \in DOMAIN list |->
                                   IF k = i
                                   THEN [path |-> n.fsPath,
                                         timestamp |-> list[k].timestamp,
                                         isActive |-> list[k].isActive,
                                         cursor |-> list[k].cursor,
                                         selectedText |-> list[k].selectedText]
                                   ELSE list[k]],
                               Tail(pairs))
                  ELSE Renamed(Without(list, i), Tail(pairs))

\* C29: a rename of a tracked file to a file uri changes the path of its
\* entry (the first one with the old path) and nothing else: the list keeps
\* its length, the entry its place, timestamp, active flag, cursor and
\* selected text, every other entry everything; a rename to a uri that is
\* no file takes the entry out; a rename of a file that is not tracked, or
\* of a uri that is no file, changes nothing
C29_RenameKeepsPlace ==
    [][\A pairs \in AggRenames :
          OnDidRenameFiles(pairs)
             => /\ openFiles' = Renamed(openFiles, pairs)
                /\ (\A k \in DOMAIN pairs :
                       \/ pairs[k].oldUri.scheme # "file"
                       \/ Tracked(openFiles, pairs[k].oldUri.fsPath) = {})
                      => openFiles' = openFiles
                /\ (\A k \in DOMAIN pairs : pairs[k].newUri.scheme = "file")
                      => /\ Len(openFiles') = Len(openFiles)
                         /\ \A i \in DOMAIN openFiles :
                               [openFiles'[i] EXCEPT !.path = ""]
                                  = [openFiles[i] EXCEPT !.path = ""]]_vars

\* the active file "a", with its cursor and selection, was renamed to "c"
\* while "b" was tracked behind it
C29_Witness ==
    /\ lastOp = "rename"
    /\ Len(openFiles) >= 2
    /\ openFiles[1].path = "c" /\ openFiles[1].isActive
    /\ openFiles[1].cursor # None /\ openFiles[1].selectedText # None
    /\ openFiles[2].path = "b"
    /\ Tracked(openFiles, "a") = {}

\* the list with its active entries deactivated
Deactivated(list) ==
    [k \in DOMAIN list |-> IF list[k].isActive THEN Cleared(list[k]) ELSE list[k]]

\* C30: the activation of a tracked file puts a new entry for it in front
\* and takes its old entry out: the list keeps its length and every other
\* entry stays, in order; the activation of a file that is not tracked
\* while the list has MAX_FILES (10) entries puts it in front and takes out
\* the last entry, which no entry is older than, and no other
C30_EvictsTailOnlyWhenFull ==
    [][\A ed \in AggEditors :
          (OnDidChangeActiveTextEditor(Some(ed)) /\ ed.uri.scheme = "file")
             => LET p == ed.uri.fsPath
                    at == Tracked(openFiles, p)
                IN  /\ openFiles'[1].path = p /\ openFiles'[1].isActive
                    /\ at # {}
                         => /\ Len(openFiles') = Len(openFiles)
                            /\ Tail(openFiles') =
                                  Without(Deactivated(openFiles),
                                          CHOOSE i \in at : \A j \in at : i <= j)
                    /\ (at = {} /\ Len(openFiles) = 10)
                         => /\ Len(openFiles') = 10
                            /\ Tail(openFiles') = Without(Deactivated(openFiles), 10)
                            /\ \A k \in DOMAIN openFiles :
                                  openFiles[10].timestamp <= openFiles[k].timestamp
                    /\ (at = {} /\ Len(openFiles) < 10)
                         => Tail(openFiles') = Deactivated(openFiles)]_vars

\* "c", not tracked, was activated while the list was full: the filler that
\* stood last is gone, the nine other entries stand behind "c"
C30_Witness ==
    /\ lastOp = "activate"
    /\ Len(openFiles) = 10
    /\ openFiles[1].path = "c"
    /\ openFiles[2].path \in {"a", "b"} /\ openFiles[3].path \in {"a", "b"}
    /\ \A i \in 1..(Len(Fillers) - 1) : openFiles[i + 3] = Prefilled[i]
    /\ Tracked(openFiles, Fillers[Len(Fillers)]) = {}

\* the editor shows the entry of the list that is active
OnActiveEntry(list, ed) ==
    \E i \in DOMAIN list : list[i].path = ed.uri.fsPath /\ list[i].isActive

\* C31: a selection event of an editor whose file is not in the list, or is
\* in the list and not active, leaves the list as it is, the cursor and the
\* selected text of the active entry included
C31_SelectionElsewhereChangesNothing ==
    [][\A ed \in AggEditors :
          OnDidChangeTextEditorSelection(ed) /\ ~OnActiveEntry(openFiles, ed)
             => openFiles' = openFiles]_vars

\* the active file was closed and a selection event came then: the list
\* has entries, none of them active, and none has cursor or selection
C31_Witness ==
    /\ lastOp = "selection"
    /\ Len(openFiles) >= 2
    /\ \A i \in DOMAIN openFiles :
          /\ ~openFiles[i].isActive
          /\ openFiles[i].cursor = None
          /\ openFiles[i].selectedText = None

\* the paths of the list are pairwise different
DistinctPaths(list) ==
    \A i, j \in DOMAIN list : i # j => list[i].path # list[j].path

\* C37 (as the code has it): an activation, a close and a delete keep the
\* paths of the list pairwise different; so does a rename none of whose
\* new paths is the path of an entry
C37_DistinctUnlessRenamedOnto ==
    [][(/\ DistinctPaths(openFiles)
        /\ \/ \E ed \in AggEditors : OnDidChangeActiveTextEditor(Some(ed))
           \/ \E u \in AggUris : OnDidCloseTextDocument(u)
           \/ \E uris \in AggDeletes : OnDidDeleteFiles(uris)
           \/ \E pairs \in AggRenames :
                 /\ OnDidRenameFiles(pairs)
                 /\ \A k \in DOMAIN pairs : Tracked(openFiles, pairs[k].newUri.fsPath) = {})
          => DistinctPaths(openFiles')]_vars

\* the list was full, a file was activated and another one closed
C37_Witness ==
    /\ lastOp = "close"
    /\ Len(openFiles) = MAX_FILES - 1
    /\ DistinctPaths(openFiles)

\* C37 (as stated, refuted): no two entries of the list have the same path
C37_NoTwoEntriesOfOnePath == DistinctPaths(openFiles)

(***************************************************************************)
(* Selections around the limit of the selected text                        *)
(***************************************************************************)
SelSlack == 1

\* lengths of the selection: none, short, and around the limit
SelLengths ==
    {0, 1} \cup {MAX_SELECTED_TEXT_LENGTH + d : d \in (0 - SelSlack)..SelSlack}
           \cup {MAX_SELECTED_TEXT_LENGTH + TextLen(TRUNCATED_MARKER)}

\* texts of these lengths: one character repeated, another character at
\* the start or at the end, and the first character of the marker repeated
SelTexts ==
    UNION {{Rep("x", L), Rep(".", L),
            Concat(Rep("x", L - 1), Rep("y", 1)),
            Concat(Rep("y", 1), Rep("x", L - 1))} : L \in SelLengths}

SelEditors ==
    {[uri |-> FileUri(p), active |-> Some([line |-> 0, character |-> 0]), text |-> t] :
        p \in {"a", "b"}, t \in SelTexts}

InitSelection ==
    /\ InitAggregator(Constructed(Some(EditorOn(FileUri("a"), Caret))))
    /\ isTrusted = TRUE
    /\ InitHost
    /\ lastOp = "init"
    /\ InitDiffManager
    /\ InitNoSession

NextSelection ==
    \/ \E ed \in SelEditors : OnDidChangeActiveTextEditor(Some(ed))
    \/ \E ed \in SelEditors : OnDidChangeTextEditorSelection(ed)
    \/ \E p \in {"a", "b"} : OnDidCloseTextDocument(FileUri(p))

SpecSelection == InitSelection /\ [][NextSelection]_vars

\* String.prototype.substring(k)
RECURSIVE SubstringFrom(_, _)
SubstringFrom(t, k) ==
    IF k <= 0 \/ t = <<>> THEN t
    ELSE IF Head(t).n <= k THEN SubstringFrom(Tail(t), k - Head(t).n)
    ELSE <<[ch |-> Head(t).ch, n |-> Head(t).n - k]>> \o Tail(t)

\* what is stored for a selection of the given text
StoredFor(stored, text) ==
    IF TextLen(text) = 0 THEN stored = None
    ELSE IF TextLen(text) <= 16384 THEN stored = Some(text)
    ELSE /\ stored # None
         /\ TextLen(stored[1]) = 16384 + 15
         /\ SubstringTo(stored[1], 16384) = SubstringTo(text, 16384)
         /\ SubstringFrom(stored[1], 16384) = TRUNCATED_MARKER

\* C22: when a selection or an activation comes for the file that is then
\* the active one, what is stored as its selected text is the text itself
\* if it has 1 to 16384 characters, and its first 16384 characters followed
\* by '... [TRUNCATED]' if it has more; an empty selection is stored as
\* undefined
C22_TruncatesAtLimit ==
    [][\A ed \in SelEditors :
          (/\ OnDidChangeTextEditorSelection(ed) \/ OnDidChangeActiveTextEditor(Some(ed))
           /\ openFiles' # <<>>
           /\ openFiles'[1].isActive
           /\ openFiles'[1].path = ed.uri.fsPath)
             => StoredFor(openFiles'[1].selectedText, ed.text)]_vars

\* a selection of 16385 characters, the last one another character, is
\* stored as the first 16384 and the marker
C22_Witness ==
    /\ lastOp = "selection"
    /\ openFiles # <<>>
    /\ openFiles[1].isActive
    /\ openFiles[1].selectedText = Some(Concat(Rep("x", 16384), TRUNCATED_MARKER))
    /\ afterLastEvent = openFiles

(***************************************************************************)
(* The aggregator and a caller that keeps a state it has read              *)
(***************************************************************************)
SnapPaths == {"a", "b"}
SnapEditors == {EditorOn(FileUri(p), s) : p \in SnapPaths, s \in AggSelections}

InitSnapshot ==
    /\ \E list \in {Constructed(Some(EditorOn(FileUri("a"), Selected))), Prefilled} :
          InitAggregator(list)
    /\ isTrusted = TRUE
    /\ InitHost
    /\ lastOp = "init"
    /\ InitDiffManager
    /\ InitNoSession

NextSnapshot ==
    \/ ReadState
    \/ \E ed \in SnapEditors : OnDidChangeActiveTextEditor(Some(ed))
    \/ \E ed \in SnapEditors : OnDidChangeTextEditorSelection(ed)
    \/ \E p \in SnapPaths : OnDidCloseTextDocument(FileUri(p))
    \/ \E uris \in AggDeletes : OnDidDeleteFiles(uris)
    \/ \E pairs \in AggRenames : OnDidRenameFiles(pairs)

\* the events of one burst: the clock stands, the debounce timeout is pending
SpecSnapshot == InitSnapshot /\ [][NextSnapshot]_vars

\* the list as the caller sees it through the state it holds
Seen == Deref(snapshot[1].refs, openFiles)
Taken == snapshot[1].taken

\* C20 as stated: a state the getter has returned shows the same list, with
\* the same fields in every entry, whatever events the aggregator handles
\* afterwards
C20_AsStated == snapshot # None => Seen = Taken

\* C20, what holds: the array of a returned state keeps its length and its
\* objects (their timestamps stay), and an entry that was not the active
\* one when the state was read changes in nothing but its path
C20_ArrayCopied ==
    snapshot # None =>
        /\ Len(Seen) = Len(Taken)
        /\ \A i \in DOMAIN Taken :
              /\ Seen[i].timestamp = Taken[i].timestamp
              /\ ~Taken[i].isActive => Seen[i] = [Taken[i] EXCEPT !.path = Seen[i].path]

\* the state was read while "a" was active with a selection; "b" was
\* activated, and the entry of "a" in the state read before shows no
\* selection and is not active
C20_Witness ==
    /\ snapshot # None
    /\ lastOp = "activate"
    /\ Len(Taken) >= 1
    /\ Taken[1].path = "a" /\ Taken[1].isActive /\ Taken[1].selectedText # None
    /\ Seen[1].path = "a" /\ ~Seen[1].isActive /\ Seen[1].selectedText = None
    /\ openFiles[1].path = "b"

(***************************************************************************)
(* The diff manager on its own: no session is connected                    *)
(***************************************************************************)
\* calls one after the other, on up to MaxOpens diffs
MaxOpens == 2
MaxTasks == 1
\* calls that overlap, on up to OverlapOpens diffs
OverlapOpens == 1
OverlapTasks == 2

DiffPaths == {"a.txt", "b.txt"}
DiffContents == {"x", "y"}
DiffEdits == {"e"}
\* the commands of the extension are run on the editors of diffs
DiffUris == {issued[i] : i \in DOMAIN issued}

InitDiff ==
    /\ InitAggregator(Constructed(None))
    /\ isTrusted = TRUE
    /\ InitHost
    /\ lastOp = "init"
    /\ InitDiffManager
    /\ InitNoSession

\* the calls of the diff manager, the steps of the calls under way, and the
\* user's actions in the editor
DiffStep(maxOpens, maxTasks) ==
    \/ \E p \in DiffPaths, c \in DiffContents :
          Len(issued) < maxOpens /\ Len(tasks) < maxTasks /\ ShowDiff(p, c)
    \/ \E k \in DOMAIN tasks : ShowDiffOpen(k)
    \/ \E k \in DOMAIN tasks : ShowDiffDone(k)
    \/ \E u \in DiffUris : Len(tasks) < maxTasks /\ AcceptDiff(u)
    \/ \E u \in DiffUris : Len(tasks) < maxTasks /\ CancelDiff(u)
    \/ \E p \in DiffPaths, b \in BOOLEAN : Len(tasks) < maxTasks /\ CloseDiff(p, b)
    \/ \E k \in DOMAIN tasks : ReadBack(k)
    \/ \E k \in DOMAIN tasks : Teardown(k)
    \/ \E k \in DOMAIN tasks : TabClosed(k)
    \/ \E k \in DOMAIN tasks : Finish(k)
    \/ \E u \in DiffUris, t \in DiffEdits : UserEdits(u, t)
    \/ \E u \in DiffUris : UserClosesTab(u)
    \/ \E u \in DiffUris : Len(tasks) < maxTasks /\ OnDidCloseDiffDocument(u)

NextDiff == DiffStep(MaxOpens, MaxTasks)

SpecDiff == InitDiff /\ [][NextDiff]_vars

NextDiffOverlap == DiffStep(OverlapOpens, OverlapTasks)

SpecDiffOverlap == InitDiff /\ [][NextDiffOverlap]_vars

\* a diff and the files of the workspace: the CLI, or the user in another
\* editor, writes a file of the workspace
AccOpens == 1
AccTasks == 1

FileWritten(p, c) ==
    /\ disk[p] # c
    /\ disk' = [disk EXCEPT ![p] = c]
    /\ lastOp' = "fileWritten"
    /\ UNCHANGED <<server, workspaceFolders, discoveryFiles, environment,
                   writes, stopTask>>
    /\ UNCHANGED <<aggVars, now, isTrusted, aggHist, diffVars, srvVars>>

NextAccept ==
    \/ DiffStep(AccOpens, AccTasks)
    \/ \E p \in DiffPaths, c \in DiffContents : FileWritten(p, c)

SpecAccept == InitDiff /\ [][NextAccept]_vars

(***************************************************************************)
(* Properties of the diff manager                                          *)
(***************************************************************************)
\* what the proposed-content surface of a diff shows: the text of its
\* document, which the content provider serves until the user edits it
Surface(uri) ==
    IF uri \in DOMAIN docs THEN docs[uri]
    ELSE provideTextDocumentContent(providerContent, uri)

\* C4: acceptDiff reads the text the surface of the diff shows at that
\* moment (user edits included), fires ide/diffAccepted with the file path
\* of the diff and that text, and has removed the diff from diffDocuments
\* when it returns; the diff stays removed, and an acceptDiff called for it
\* afterwards fires nothing and changes nothing
C4_AcceptReportsAndRemoves ==
    /\ [][\A k \in DOMAIN tasks :
            (tasks[k].op = "acceptDiff" /\ ReadBack(k))
                => tasks'[k].content = Surface(tasks[k].uri)]_vars
    /\ [][\A k \in DOMAIN tasks :
            (tasks[k].op = "acceptDiff" /\ Finish(k))
                => /\ emitted' = Append(emitted,
                                   DiffAccepted(tasks[k].uri.path, tasks[k].content))
                   /\ tasks[k].uri \notin Keys(diffDocuments')
                   /\ tasks[k].uri \notin DOMAIN providerContent']_vars
    /\ [](accepted \cap Keys(diffDocuments) = {})
    /\ [][\A u \in accepted :
            AcceptDiff(u) => UNCHANGED <<diffDocuments, providerContent, tasks, docs,
                                         tabs, emitted, lastReturn, outbox>>]_vars

\* showDiff("a.txt", "x"), the user types "e", acceptDiff reports "e", and
\* acceptDiff has been called again for the same diff
C4_Witness ==
    /\ lastOp = "acceptDiff.absent"
    /\ acceptedAgain = {RightDocUri("a.txt", 1)}
    /\ emitted = <<DiffAccepted("a.txt", "e")>>
    /\ diffDocuments = <<>>
    /\ tasks = <<>>

\* C5: every showDiff appends one entry to diffDocuments under a key that no
\* entry had, and leaves the entries that were there as they were; this
\* holds in particular when a diff of the same file is already open
C5_OpenTwiceAddsEntry ==
    [][\A p \in DiffPaths, c \in DiffContents :
          ShowDiff(p, c)
              => /\ Len(diffDocuments') = Len(diffDocuments) + 1
                 /\ SubSeq(diffDocuments', 1, Len(diffDocuments)) = diffDocuments
                 /\ diffDocuments'[Len(diffDocuments')].key \notin Keys(diffDocuments)
                 /\ diffDocuments'[Len(diffDocuments')].value.originalFilePath = p]_vars

\* two diffs of a.txt are open at the same time under different uris
C5_Witness ==
    /\ Len(diffDocuments) = 2
    /\ diffDocuments[1].value.originalFilePath = "a.txt"
    /\ diffDocuments[2].value.originalFilePath = "a.txt"
    /\ diffDocuments[1].key # diffDocuments[2].key
    /\ tabs = {diffDocuments[1].key, diffDocuments[2].key}
    /\ tasks = <<>>

\* the outcomes recorded for the diff of uri u
OutcomesOf(u) == SelectSeq(outcomes, LAMBDA o : o.uri = u)

\* the events among the outcomes
EventsOf(u) == SelectSeq(OutcomesOf(u), LAMBDA o : o.outcome # "silent")

\* the step leaves the table, the cache and the events as they are
DiffStateKept == UNCHANGED <<diffDocuments, providerContent, emitted, outcomes, outbox>>

\* C15: acceptDiff, cancelDiff and closeDiff that find no diff (the uri is
\* not in diffDocuments, no diff of the file is) fire no event and leave
\* diffDocuments and the content of the provider as they are, in the call
\* and in every later step of it; acceptDiff and closeDiff return at once,
\* closeDiff returning undefined
C15_AbsentIsNoOp ==
    /\ [][\A u \in DiffUris :
            (u \notin Keys(diffDocuments) /\ AcceptDiff(u))
                => (DiffStateKept /\ UNCHANGED <<tasks, docs, tabs, lastReturn>>)]_vars
    /\ [][\A u \in DiffUris :
            (u \notin Keys(diffDocuments) /\ CancelDiff(u))
                => (DiffStateKept /\ tasks'[Len(tasks')].info = None)]_vars
    /\ [][\A p \in DiffPaths, b \in BOOLEAN :
            (FirstDiffOf(diffDocuments, p) = None /\ CloseDiff(p, b))
                => (DiffStateKept /\ UNCHANGED <<tasks, docs, tabs>> /\ lastReturn' = None)]_vars
    /\ [][\A k \in DOMAIN tasks :
            (/\ tasks[k].op = "cancelDiff" /\ tasks[k].info = None
             /\ (Teardown(k) \/ TabClosed(k) \/ Finish(k)))
                => DiffStateKept]_vars

\* the first diff was accepted, and a cancelDiff called for it afterwards
\* has returned: the second diff is open as before, one event was fired
C15_Witness ==
    /\ lastOp = "cancelDiff.done"
    /\ tasks = <<>>
    /\ RightDocUri("a.txt", 1) \in DOMAIN docs
    /\ Keys(diffDocuments) = {RightDocUri("b.txt", 2)}
    /\ DOMAIN providerContent = {RightDocUri("b.txt", 2)}
    /\ emitted = <<DiffAccepted("a.txt", "x")>>

\* C16: acceptDiff and cancelDiff of a diff that is open report the text its
\* surface shows and fire one event each, ide/diffAccepted and ide/diffClosed
\* respectively, with the file path of the diff and that text; when teardown
\* closes the tab the record is already deleted, so that the cancelDiff the
\* editor calls when the document closes finds no diff, and a cancelDiff
\* that finds no diff fires nothing; every event is the one event of a call
\* that found the diff, also when calls overlap
C16_OneOutcomeEvent ==
    /\ [][\A k \in DOMAIN tasks :
            (tasks[k].op \in {"acceptDiff", "cancelDiff"} /\ ReadBack(k))
                => tasks'[k].content = Surface(tasks[k].uri)]_vars
    /\ [][\A k \in DOMAIN tasks :
            (tasks[k].op = "acceptDiff" /\ Finish(k))
                => emitted' = Append(emitted,
                       DiffAccepted(tasks[k].info[1].originalFilePath, tasks[k].content))]_vars
    /\ [][\A k \in DOMAIN tasks :
            (tasks[k].op = "cancelDiff" /\ tasks[k].info # None /\ Finish(k))
                => emitted' = Append(emitted,
                       DiffClosed(tasks[k].info[1].originalFilePath, tasks[k].content))]_vars
    /\ [][\A k \in DOMAIN tasks :
            TabClosed(k) => tasks[k].uri \notin Keys(diffDocuments)]_vars
    /\ [][\A u \in DiffUris :
            (OnDidCloseDiffDocument(u) /\ u \notin Keys(diffDocuments))
                => tasks'[Len(tasks')].info = None]_vars
    /\ [][\A k \in DOMAIN tasks :
            (tasks[k].op = "cancelDiff" /\ tasks[k].info = None /\ Finish(k))
                => UNCHANGED <<emitted, outbox>>]_vars
    /\ [](Len(emitted) = Len(SelectSeq(outcomes, LAMBDA o : o.outcome # "silent")))

\* the user edited the diff and accepted it; teardown closed its tab, the
\* document was closed, and the cancelDiff this caused has returned: the one
\* event of the diff is its acceptance
C16_Witness ==
    /\ lastOp = "cancelDiff.done"
    /\ tasks = <<>> /\ tabs = {} /\ docs = EmptyMap
    /\ outcomes = <<[uri |-> RightDocUri("a.txt", 1), outcome |-> "ide/diffAccepted"]>>
    /\ emitted = <<DiffAccepted("a.txt", "e")>>

\* C17: closeDiff of a file that has a diff open returns the text the
\* surface of the diff showed; with suppressNotification it fires nothing,
\* without it one ide/diffClosed with the file path and that text; its
\* teardown deletes the record and the cached content and then closes the
\* tab the diff has, so when the tab closes the record is gone,
\* so that the cancelDiff of the closing document finds no diff and fires
\* nothing, also when calls overlap
C17_SuppressedCloseIsSilent ==
    /\ [][\A k \in DOMAIN tasks :
            (tasks[k].op = "closeDiff" /\ ReadBack(k))
                => tasks'[k].content = Surface(tasks[k].uri)]_vars
    /\ [][\A k \in DOMAIN tasks :
            (tasks[k].op = "closeDiff" /\ Finish(k))
                => /\ lastReturn' = Some(tasks[k].content)
                   /\ tasks[k].uri \notin Keys(diffDocuments')
                   /\ tasks[k].uri \notin DOMAIN providerContent'
                   /\ tasks[k].suppress => UNCHANGED <<emitted, outbox>>
                   /\ ~tasks[k].suppress
                        => emitted' = Append(emitted,
                               DiffClosed(tasks[k].filePath, tasks[k].content))]_vars
    /\ [][\A k \in DOMAIN tasks :
            (tasks[k].op = "closeDiff" /\ Teardown(k))
                => /\ tasks[k].uri \notin Keys(diffDocuments')
                   /\ tasks[k].uri \notin DOMAIN providerContent'
                   /\ tasks[k].uri \in tabs => tasks'[k].pc = "closing"]_vars
    /\ [][\A k \in DOMAIN tasks :
            (tasks[k].op = "closeDiff" /\ TabClosed(k))
                => /\ tasks[k].uri \notin Keys(diffDocuments)
                   /\ tasks[k].uri \notin DOMAIN providerContent
                   /\ tasks[k].uri \notin tabs']_vars
    /\ [][\A u \in DiffUris :
            (OnDidCloseDiffDocument(u) /\ u \notin Keys(diffDocuments))
                => /\ tasks'[Len(tasks')].op = "cancelDiff"
                   /\ tasks'[Len(tasks')].info = None
                   /\ UNCHANGED <<emitted, outbox>>]_vars
    /\ [][\A k \in DOMAIN tasks :
            (tasks[k].op = "cancelDiff" /\ tasks[k].info = None)
                => (emitted' # emitted => ~Finish(k) /\ ~Teardown(k) /\ ~TabClosed(k))]_vars

\* closeDiff("a.txt", true) returned the text the user had typed, the
\* document of the diff was closed and the cancelDiff this caused has
\* returned: no event was fired
C17_Witness ==
    /\ lastOp = "cancelDiff.done"
    /\ tasks = <<>> /\ tabs = {} /\ docs = EmptyMap
    /\ outcomes = <<[uri |-> RightDocUri("a.txt", 1), outcome |-> "silent"]>>
    /\ lastReturn = Some("e")
    /\ emitted = <<>>

\* C18: closeDiff(filePath) takes the diff of the file that was opened
\* first; its teardown deletes that one record and that one cached content
\* and closes that one tab, and no step of the call changes another diff:
\* its record, its cached content, its document and its tab stay
C18_ClosesEarliestOnly ==
    /\ [][\A p \in DiffPaths, b \in BOOLEAN :
            (FirstDiffOf(diffDocuments, p) # None /\ CloseDiff(p, b))
                => \E i \in DOMAIN diffDocuments :
                      /\ tasks'[Len(tasks')].uri = diffDocuments[i].key
                      /\ diffDocuments[i].value.originalFilePath = p
                      /\ \A j \in 1..(i - 1) :
                            diffDocuments[j].value.originalFilePath # p]_vars
    /\ [][\A k \in DOMAIN tasks :
            (tasks[k].op = "closeDiff"
             /\ (ReadBack(k) \/ Teardown(k) \/ TabClosed(k) \/ Finish(k)))
                => /\ diffDocuments'
                        = SelectSeq(diffDocuments,
                                    LAMBDA e : ~(Teardown(k) /\ e.key = tasks[k].uri))
                   /\ \A u \in DiffUris \ {tasks[k].uri} :
                         /\ u \in DOMAIN providerContent
                               => /\ u \in DOMAIN providerContent'
                                  /\ providerContent'[u] = providerContent[u]
                         /\ u \in DOMAIN docs
                               => (u \in DOMAIN docs' /\ docs'[u] = docs[u])
                         /\ u \in tabs => u \in tabs']_vars

\* two diffs of a.txt were open, with "x" and with "y"; closeDiff("a.txt")
\* has returned "x", and the diff opened second is open as it was
C18_Witness ==
    /\ lastOp = "closeDiff.done"
    /\ lastReturn = Some("x")
    /\ Keys(diffDocuments) = {RightDocUri("a.txt", 2)}
    /\ providerContent = MapPut(EmptyMap, RightDocUri("a.txt", 2), "y")
    /\ tabs = {RightDocUri("a.txt", 2)}
    /\ docs[RightDocUri("a.txt", 2)] = "y"

\* C19 as stated, for the surface: in no state is the tab of a diff open
\* while the record of the diff is not in diffDocuments
C19_AsStated == \A u \in tabs : u \in Keys(diffDocuments)

\* C19, what holds: the record and the cached content of a diff are made
\* and deleted in the same step, and when accept, cancel or closeDiff of a
\* diff returns, its record and its cached content are gone, and so is the
\* tab that teardown found
C19_RecordAndCacheTogether ==
    /\ [](Keys(diffDocuments) = DOMAIN providerContent)
    /\ [][\A k \in DOMAIN tasks :
            /\ Finish(k) => /\ tasks[k].uri \notin Keys(diffDocuments')
                            /\ tasks[k].uri \notin DOMAIN providerContent'
            /\ TabClosed(k) => tasks[k].uri \notin tabs']_vars

\* a diff was cancelled while another one stays open
C19_Witness ==
    /\ lastOp = "cancelDiff.done"
    /\ outcomes = <<[uri |-> RightDocUri("a.txt", 1), outcome |-> "ide/diffClosed"]>>
    /\ Keys(diffDocuments) = {RightDocUri("b.txt", 2)}
    /\ tabs = {RightDocUri("b.txt", 2)}
    /\ RightDocUri("a.txt", 1) \notin DOMAIN providerContent

AcceptStep(k) ==
    /\ tasks[k].op = "acceptDiff"
    /\ ReadBack(k) \/ Teardown(k) \/ TabClosed(k) \/ Finish(k)

\* C26: no step of acceptDiff changes a file of the workspace; a step of it
\* changes nothing but the record, the cached content and the tab of its
\* diff (the teardown), the document it reads, and the list of events, to
\* which its last step adds ide/diffAccepted with the text it read
C26_AcceptWritesNoFile ==
    /\ [][\A u \in DiffUris :
            AcceptDiff(u)
               => /\ disk' = disk
                  /\ UNCHANGED <<diffDocuments, providerContent, tabs, docs, emitted,
                                 issued, lastReturn, outbox>>]_vars
    /\ [][\A k \in DOMAIN tasks :
            AcceptStep(k)
               => /\ disk' = disk
                  /\ diffDocuments' \in {diffDocuments, MapDelete(diffDocuments, tasks[k].uri)}
                  /\ providerContent' \in {providerContent,
                                           MapDel(providerContent, tasks[k].uri)}
                  /\ tabs' \in {tabs, tabs \ {tasks[k].uri}}
                  /\ DOMAIN docs' \subseteq DOMAIN docs \cup {tasks[k].uri}
                  /\ \A d \in DOMAIN docs : d \in DOMAIN docs' /\ docs'[d] = docs[d]
                  /\ emitted' = IF Finish(k)
                                THEN Append(emitted,
                                            DiffAccepted(tasks[k].info[1].originalFilePath,
                                                         tasks[k].content))
                                ELSE emitted
                  /\ UNCHANGED <<issued, lastReturn, aggVars, sessVars,
                                 server, workspaceFolders, discoveryFiles,
                                 environment, writes, stopTask>>]_vars

\* an edited diff of a.txt was accepted: the event carries the edited text
\* and a.txt is as it was
C26_Witness ==
    /\ lastOp = "acceptDiff.done"
    /\ emitted = <<DiffAccepted("a.txt", "e")>>
    /\ diffDocuments = <<>>
    /\ disk["a.txt"] = "old"

\* C39: the uris that have a cached content are the uris that have a
\* record; showDiff adds its uri to both in one step, the teardown takes the
\* uri out of both in one step, and no other step changes either set, with
\* calls that overlap as well
C39_CacheKeysAreTableKeys ==
    /\ [](DOMAIN providerContent = Keys(diffDocuments))
    /\ [][\A p \in DiffPaths, c \in DiffContents :
            ShowDiff(p, c)
               => \E u \in DiffUris' \ DiffUris :
                     /\ Keys(diffDocuments') = Keys(diffDocuments) \cup {u}
                     /\ DOMAIN providerContent' = DOMAIN providerContent \cup {u}
                     /\ providerContent'[u] = c]_vars
    /\ [][\A k \in DOMAIN tasks :
            (Teardown(k) /\ tasks[k].uri \in Keys(diffDocuments))
               => /\ Keys(diffDocuments') = Keys(diffDocuments) \ {tasks[k].uri}
                  /\ DOMAIN providerContent' = DOMAIN providerContent \ {tasks[k].uri}]_vars
    /\ [][(Keys(diffDocuments') # Keys(diffDocuments)
             \/ DOMAIN providerContent' # DOMAIN providerContent)
            => \/ \E p \in DiffPaths, c \in DiffContents : ShowDiff(p, c)
               \/ \E k \in DOMAIN tasks : Teardown(k)]_vars

\* an accept and a cancel of the one diff overlapped: the first teardown has
\* taken record and content away, the second call is still under way
C39_Witness ==
    /\ lastOp = "teardown"
    /\ Len(issued) = 1
    /\ Len(tasks) = 2
    /\ tasks[1].uri = issued[1] /\ tasks[2].uri = issued[1]
    /\ {tasks[1].op, tasks[2].op} = {"acceptDiff", "cancelDiff"}
    /\ diffDocuments = <<>>
    /\ providerContent = EmptyMap

\* the outcome events fired for the diff of uri u
EventsFor(u) ==
    SelectSeq(outcomes, LAMBDA o : o.uri = u /\ o.outcome # "silent")

\* C34 (as the code has it): a call fires at most one event, in its last
\* step, and a call that fires has found the record of the diff when it
\* began; so a diff has at most as many events as calls that began while
\* its record was in the table
C34_OneEventPerCallThatFoundTheDiff ==
    [][emitted' # emitted
         => /\ Len(emitted') = Len(emitted) + 1
            /\ \E k \in DOMAIN tasks :
                  /\ Finish(k)
                  /\ tasks[k].op = "closeDiff" \/ tasks[k].info # None
                  /\ tasks[k].uri \notin Keys(diffDocuments)]_vars

\* an accept and a cancel of the one diff overlapped, and each has fired:
\* the diff has the events ide/diffAccepted and ide/diffClosed
C34_Witness ==
    /\ Len(issued) = 1
    /\ tasks = <<>>
    /\ Len(EventsFor(issued[1])) = 2
    /\ {EventsFor(issued[1])[i].outcome : i \in 1..2}
          = {"ide/diffAccepted", "ide/diffClosed"}

\* C34 (as stated, refuted): at most one outcome event is fired for a diff
C34_AtMostOneEvent == \A u \in DiffUris : Len(EventsFor(u)) <= 1

(***************************************************************************)
(* The server and its clients                                              *)
(***************************************************************************)
MaxSessions == 2
HttpOpens == 1
HttpTasks == 1
HttpGets == 1

HttpOrigins == {None, Some(""), Some("http://evil.example")}
HttpHosts ==
    {None,
     Some([name |-> "localhost", port |-> port]),
     Some([name |-> "127.0.0.1", port |-> port]),
     Some([name |-> "localhost", port |-> port + 1]),
     Some([name |-> "evil.example", port |-> port])}
HttpAuthorizations ==
    {None, Some(<<"">>),
     Some(<<"Bearer", authToken>>),
     Some(<<"Bearer", "guess">>),
     Some(<<"Basic", authToken>>),
     Some(<<"Bearer", authToken, "x">>)}
HttpSids == {None, Some(""), Some("s1"), Some("unknown"), Some("constructor")}
HttpBodies == {"malformed", "initialize", "openDiff", "closeDiff", "other"}

Req(method, path, body, origin, host, authorization, sid) ==
    [method |-> method, path |-> path, body |-> body, origin |-> origin,
     host |-> host, authorization |-> authorization, sid |-> sid]

\* every combination of the headers the middleware reads, on a few calls
ProbeRequests ==
    {Req(c[1], "/mcp", c[2], o, h, a, c[3]) :
        c \in {<<"POST", "openDiff", Some("s1")>>, <<"POST", "initialize", None>>,
               <<"POST", "malformed", Some("s1")>>, <<"GET", "none", Some("s1")>>},
        o \in HttpOrigins, h \in HttpHosts, a \in HttpAuthorizations}

\* every call, with headers that pass the middleware
RoutedRequests ==
    {Req("POST", "/mcp", b, o, Some(h), Some(<<"Bearer", authToken>>), sid) :
        b \in HttpBodies, o \in {None, Some("")}, h \in allowedHosts, sid \in HttpSids}
    \cup
    {Req(m, "/mcp", "none", None, Some(h), Some(<<"Bearer", authToken>>), sid) :
        m \in {"GET", "DELETE"}, h \in allowedHosts, sid \in HttpSids}

Requests == ProbeRequests \cup RoutedRequests

\* the bounds on sessions and diffs, for the requests that get to the routes
WithinBounds(req) ==
    Middleware(req) = None =>
        /\ req.body = "initialize" => Cardinality(DOMAIN outbox) < MaxSessions
        /\ req.body = "openDiff" => Len(issued) < HttpOpens
        /\ req.body \in {"openDiff", "closeDiff"} => Len(tasks) < HttpTasks
        /\ req.method = "GET" => Len(getCalls) < HttpGets

InitHttp ==
    /\ InitAggregator(Constructed(Some(EditorOn(FileUri("a"), Selected))))
    /\ isTrusted = TRUE
    /\ InitHost
    /\ lastOp = "init"
    /\ InitDiffManager
    /\ InitNoSession

NextHttp ==
    \/ lastReq = None /\ \E req \in Requests : WithinBounds(req) /\ Request(req)
    \/ ResponseSent
    \/ \E k \in DOMAIN getCalls : InitialNotification(k)
    \/ \E i \in DOMAIN transports : TransportClosed(transports[i])
    \/ \E k \in DOMAIN tasks : ShowDiffOpen(k)
    \/ \E k \in DOMAIN tasks : ShowDiffDone(k)
    \/ \E k \in DOMAIN tasks : ReadBack(k)
    \/ \E k \in DOMAIN tasks : Teardown(k)
    \/ \E k \in DOMAIN tasks : TabClosed(k)
    \/ \E k \in DOMAIN tasks : Finish(k)

SpecHttp == InitHttp /\ [][NextHttp]_vars

(***************************************************************************)
(* Properties of access control and session routing                        *)
(***************************************************************************)
\* the request handled by the step, and the response to it
Handles == lastOp' = "request" /\ lastReq = None /\ lastReq' # None
TheRequest == lastReq'[1]
Status == lastRes'.status

HasOrigin(r) == r.origin # None
HasOriginValue(r) == r.origin # None /\ r.origin # Some("")
HostIsLocal(r) ==
    \/ r.host = Some([name |-> "localhost", port |-> port])
    \/ r.host = Some([name |-> "127.0.0.1", port |-> port])
TokenMatches(r) == r.authorization = Some(<<"Bearer", authToken>>)
BodyParses(r) == r.body # "malformed"

InTable(sid) == \E i \in DOMAIN transports : transports[i] = sid
CarriesKnownSid(r) == r.sid # None /\ InTable(r.sid[1])

\* no tool has run and no table has changed
NothingChanged ==
    UNCHANGED <<openFiles, diffDocuments, providerContent, issued, tasks, docs, tabs,
                emitted, transports, sessionsWithInitialNotification, keepAlive,
                getCalls, linkUp, outbox>>

PassesAccessControl(r) ==
    BodyParses(r) /\ ~HasOriginValue(r) /\ HostIsLocal(r) /\ TokenMatches(r)

\* C10 as stated, for the requests that get to the routes: a POST /mcp
\* without session id that is no initialize call, or with a session id that
\* is not in the table, gets 400 with code -32000 and leaves the table as it
\* is; a GET /mcp with no or an unknown session id gets 400 and no context
\* is sent
C10_AsStated ==
    [][(Handles /\ PassesAccessControl(TheRequest) /\ TheRequest.path = "/mcp")
          => /\ (/\ TheRequest.method = "POST"
                 /\ \/ TheRequest.sid = None /\ TheRequest.body # "initialize"
                    \/ TheRequest.sid # None /\ ~InTable(TheRequest.sid[1]))
                  => /\ Status = 400
                     /\ lastRes'.code = 0 - 32000
                     /\ UNCHANGED <<transports, sessionsWithInitialNotification>>
             /\ (/\ TheRequest.method = "GET"
                 /\ \/ TheRequest.sid = None
                    \/ ~InTable(TheRequest.sid[1]))
                  => /\ Status = 400
                     /\ UNCHANGED <<transports, sessionsWithInitialNotification, outbox>>]_vars

\* C10, for session ids that are no member of Object.prototype, an empty
\* header counting as no session id: the same
C10_UnknownSessionRefused ==
    [][(/\ Handles
        /\ PassesAccessControl(TheRequest)
        /\ TheRequest.path = "/mcp"
        /\ TheRequest.sid \notin {Some(k) : k \in ObjectPrototypeKeys})
          => /\ (/\ TheRequest.method = "POST"
                 /\ \/ Falsy(TheRequest.sid) /\ TheRequest.body # "initialize"
                    \/ ~Falsy(TheRequest.sid) /\ ~InTable(TheRequest.sid[1]))
                  => /\ Status = 400
                     /\ lastRes'.code = 0 - 32000
                     /\ UNCHANGED <<transports, sessionsWithInitialNotification>>
             /\ (/\ TheRequest.method = "GET"
                 /\ \/ TheRequest.sid = None
                    \/ ~InTable(TheRequest.sid[1]))
                  => /\ Status = 400
                     /\ UNCHANGED <<transports, sessionsWithInitialNotification, outbox>>]_vars

\* an initialize call with an unknown session id got 400 with code -32000
\* while session s1 was in the table
C10_Witness ==
    /\ lastOp = "request"
    /\ lastReq[1].method = "POST" /\ lastReq[1].body = "initialize"
    /\ lastReq[1].sid = Some("unknown")
    /\ lastRes.status = 400 /\ lastRes.code = 0 - 32000
    /\ transports = <<"s1">>

\* the session ids the table gains in a step
Gained == {transports'[i] : i \in DOMAIN transports'} \ {transports[i] : i \in DOMAIN transports}

\* C11: the table gains an entry only when the server handles a POST /mcp
\* that passes access control, carries no session id and is an initialize
\* request; the step adds exactly one entry, under an id never issued
\* before, after the entries it had; a request whose session id is in the
\* table is answered by the transport of that entry and leaves the table
\* as it is
C11_OnlyInitializeCreates ==
    [][/\ Gained # {}
          => /\ Handles
             /\ PassesAccessControl(TheRequest)
             /\ TheRequest.method = "POST" /\ TheRequest.path = "/mcp"
             /\ Falsy(TheRequest.sid)
             /\ TheRequest.body = "initialize"
             /\ Cardinality(Gained) = 1
             /\ Gained \cap DOMAIN outbox = {}
             /\ \E sid \in Gained : transports' = Append(transports, sid)
       /\ (/\ Handles
           /\ PassesAccessControl(TheRequest)
           /\ TheRequest.path = "/mcp" /\ TheRequest.method \in {"POST", "GET"}
           /\ ~Falsy(TheRequest.sid) /\ InTable(TheRequest.sid[1]))
          => /\ transports' = transports
             /\ lastRes' = ByTransport]_vars

\* an initialize call without session id made session s2 while s1 was in
\* the table
C11_Witness ==
    /\ lastOp = "request"
    /\ lastReq[1].method = "POST" /\ lastReq[1].body = "initialize"
    /\ Falsy(lastReq[1].sid)
    /\ lastRes = ByTransport
    /\ transports = <<"s1", "s2">>
    /\ outbox["s2"] = <<>>

\* editor events are taken while the debounce delay still ends by MaxTime
InTime == now + DEBOUNCE_MS <= MaxTime

(***************************************************************************)
(* Sessions from initialize to close: the first context, pings, broadcasts *)
(***************************************************************************)
SessSessions == 2
SessPings == 1
SessGets == 2
SessFiles == 2

SessTicks == {DEBOUNCE_MS}
SessEditors == {EditorOn(FileUri("b"), Caret)}
SessHost == Some([name |-> "localhost", port |-> port])

\* initialize calls, and calls that carry the id of a session
SessRequests ==
    {Req("POST", "/mcp", "initialize", None, SessHost, Some(<<"Bearer", authToken>>), None)}
    \cup
    {Req(c[1], "/mcp", c[2], None, SessHost, Some(<<"Bearer", authToken>>), Some(sid)) :
        c \in {<<"GET", "none">>, <<"POST", "other">>}, sid \in {"s1", "s2"}}

\* the pings sent on the transport of a session
PingsSent(sid) ==
    Cardinality({i \in DOMAIN outbox[sid] : outbox[sid][i].msg.method = "ping"})

InitSession ==
    /\ InitAggregator(Constructed(Some(EditorOn(FileUri("a"), Selected))))
    /\ isTrusted = TRUE
    /\ InitHost
    /\ lastOp = "init"
    /\ InitDiffManager
    /\ InitNoSession

NextSession ==
    \/ /\ lastReq = None
       /\ \E req \in SessRequests :
            /\ req.body = "initialize" => Cardinality(DOMAIN outbox) < SessSessions
            /\ req.method = "GET" => Len(getCalls) < SessGets
            /\ Request(req)
    \/ ResponseSent
    \/ \E k \in DOMAIN getCalls : InitialNotification(k)
    \/ \E i \in DOMAIN transports : TransportClosed(transports[i])
    \/ \E sid \in keepAlive : PingsSent(sid) < SessPings /\ KeepAlive(sid)
    \/ \E ed \in SessEditors :
          Len(openFiles) < SessFiles /\ OnDidChangeActiveTextEditor(Some(ed))
    \/ \E h \in DOMAIN timers : DebounceFire(h)
    \/ \E dt \in SessTicks : DOMAIN timers # {} /\ Tick(dt)

SpecSession == InitSession /\ [][NextSession]_vars

(***************************************************************************)
(* One session and its keep-alive interval on a stream that breaks         *)
(***************************************************************************)
KaSessions == 1
KaPings == 6

NextKeepAlive ==
    \/ /\ lastReq = None
       /\ Cardinality(DOMAIN outbox) < KaSessions
       /\ Request(Req("POST", "/mcp", "initialize", None, SessHost,
                      Some(<<"Bearer", authToken>>), None))
    \/ ResponseSent
    \/ \E sid \in keepAlive : PingsSent(sid) < KaPings /\ KeepAlive(sid)
    \/ \E i \in DOMAIN transports : LinkDown(transports[i])
    \/ \E i \in DOMAIN transports : LinkRestored(transports[i])
    \/ \E i \in DOMAIN transports : TransportClosed(transports[i])

SpecKeepAlive == InitSession /\ [][NextKeepAlive]_vars

(***************************************************************************)
(* Properties of the life of a session                                     *)
(***************************************************************************)
InTableNext(sid) == \E i \in DOMAIN transports' : transports'[i] = sid

\* the session was made and its transport has closed
Closed(sid) == sid \in DOMAIN outbox /\ ~InTable(sid)

\* the step in which the changed signal of the aggregator fires
ContextFires == firesSinceMutation' = firesSinceMutation + 1

ContextsSent(sid) ==
    Cardinality({i \in DOMAIN outbox[sid] : outbox[sid][i].msg.method = "ide/contextUpdate"})

\* the step in which the interval of some session fires
Pinged == \E sid \in DOMAIN outbox : PingsSent(sid)' # PingsSent(sid)

\* C12: the step in which a session leaves the table is the close of its
\* transport, and the same step removes its initial-context flag and its
\* keep-alive interval; a closed session never comes back to the table, its
\* interval stays cleared, no ping and no broadcast is handed to its
\* transport, and a POST or GET /mcp that passes access control and carries
\* its id is answered 400 and changes nothing
C12_ClosedIsTerminal ==
    [][\A sid \in DOMAIN outbox :
          /\ (InTable(sid) /\ ~InTableNext(sid))
                => /\ lastOp' = "sessionClosed"
                   /\ sid \notin sessionsWithInitialNotification'
                   /\ sid \notin keepAlive'
          /\ Closed(sid)
                => /\ ~InTableNext(sid)
                   /\ sid \notin keepAlive /\ sid \notin keepAlive'
                   /\ (Pinged \/ ContextFires \/ emitted' # emitted)
                         => outbox'[sid] = outbox[sid]
                   /\ (/\ Handles
                       /\ PassesAccessControl(TheRequest)
                       /\ TheRequest.path = "/mcp"
                       /\ TheRequest.method \in {"POST", "GET"}
                       /\ TheRequest.sid = Some(sid))
                         => /\ Status = 400
                            /\ UNCHANGED <<transports, sessionsWithInitialNotification,
                                           keepAlive, getCalls, outbox>>]_vars

\* session s1 has closed; a broadcast after that went to s2 and not to s1,
\* s2 was pinged, and a GET with the id of s1 got 400
C12_Witness ==
    /\ transports = <<"s2">>
    /\ "s1" \in DOMAIN outbox /\ outbox["s1"] = <<>>
    /\ firstContexts["s2"] = 0 /\ ContextsSent("s2") = 1
    /\ PingsSent("s2") = 1
    /\ keepAlive = {"s2"}
    /\ lastOp = "request"
    /\ lastReq[1].method = "GET" /\ lastReq[1].sid = Some("s1")
    /\ lastRes = InvalidOrMissingSessionId

\* the pings of a session, in order
Pings(sid) == SelectSeq(outbox[sid], LAMBDA e : e.msg.method = "ping")

\* the failed pings since the last ping that succeeded
TrailingMisses(sid) ==
    LET p == Pings(sid)
    IN  Cardinality({i \in DOMAIN p : \A j \in i..Len(p) : ~p[j].ok})

ThreeInARow(sid) ==
    LET p == Pings(sid)
    IN  \E i \in DOMAIN p :
            i + 2 <= Len(p) /\ ~p[i].ok /\ ~p[i + 1].ok /\ ~p[i + 2].ok

\* C13: the count of a session is the number of pings that failed since its
\* last ping that succeeded; while the session is in the table its interval
\* is set exactly when no three pings in a row have failed; an interval that
\* is cleared stays cleared and no further ping is sent; a ping leaves the
\* table and the flags as they are, and an entry leaves the table only in
\* the close of its transport
C13_ThreeMissesStopPings ==
    /\ [](\A sid \in DOMAIN outbox :
            /\ missedPings[sid] = TrailingMisses(sid)
            /\ InTable(sid) => (sid \in keepAlive <=> ~ThreeInARow(sid)))
    /\ [][/\ \A sid \in DOMAIN outbox :
                /\ sid \notin keepAlive
                      => sid \notin keepAlive' /\ Pings(sid)' = Pings(sid)
                /\ (InTable(sid) /\ ~InTableNext(sid)) => lastOp' = "sessionClosed"
          /\ Pinged => UNCHANGED <<transports, sessionsWithInitialNotification>>]_vars

\* two pings failed, one succeeded, three failed: the interval is cleared
\* and the session is still in the table
C13_Witness ==
    /\ transports = <<"s1">>
    /\ "s1" \notin keepAlive
    /\ Len(Pings("s1")) = 6
    /\ [i \in 1..6 |-> Pings("s1")[i].ok] = <<FALSE, FALSE, TRUE, FALSE, FALSE, FALSE>>
    /\ missedPings["s1"] = 3

\* C14: while a session is in the table, handleSessionRequest has sent it
\* the context at most once, and once exactly when its flag is set; the
\* continuation of a streaming request sends the current full context and
\* sets the flag when none was sent to the session, and sends nothing when
\* one was, whatever the order of the continuations
C14_FirstContextOnce ==
    /\ [](\A i \in DOMAIN transports :
            /\ firstContexts[transports[i]] <= 1
            /\ transports[i] \in sessionsWithInitialNotification
                   <=> firstContexts[transports[i]] = 1)
    /\ [][Len(getCalls') < Len(getCalls)
            => \E k \in DOMAIN getCalls :
                 /\ getCalls' = Splice(getCalls, k)
                 /\ InTable(getCalls[k])
                      => IF firstContexts[getCalls[k]] = 0
                         THEN /\ outbox' = TransportSend(outbox, linkUp, getCalls[k],
                                                         ContextUpdate(openFiles, isTrusted))
                              /\ firstContexts'[getCalls[k]] = 1
                              /\ lastOp' = "firstContext"
                         ELSE /\ UNCHANGED <<outbox, firstContexts,
                                             sessionsWithInitialNotification>>
                              /\ lastOp' = "firstContext.skipped"]_vars

\* of three streaming requests of s1, two of them overlapping, the first
\* sent the context, the second sent nothing, the third is still waiting
C14_Witness ==
    /\ transports = <<"s1">>
    /\ lastOp = "firstContext.skipped"
    /\ getCalls = <<"s1">>
    /\ firstContexts["s1"] = 1
    /\ ContextsSent("s1") = 1

(***************************************************************************)
(* A diff that is open while a session comes, loses its stream and goes    *)
(***************************************************************************)
DvOpens == 1
DvTasks == 1
DvSessions == 1
DvPings == 1
DvFiles == 1

NextDiffView ==
    \/ DiffStep(DvOpens, DvTasks)
    \/ /\ lastReq = None
       /\ Cardinality(DOMAIN outbox) < DvSessions
       /\ Request(Req("POST", "/mcp", "initialize", None, SessHost,
                      Some(<<"Bearer", authToken>>), None))
    \/ ResponseSent
    \/ \E sid \in keepAlive : PingsSent(sid) < DvPings /\ KeepAlive(sid)
    \/ \E i \in DOMAIN transports : LinkDown(transports[i])
    \/ \E i \in DOMAIN transports : TransportClosed(transports[i])
    \/ \E ed \in SessEditors :
          Len(openFiles) < DvFiles /\ OnDidChangeActiveTextEditor(Some(ed))
    \/ \E h \in DOMAIN timers : DebounceFire(h)
    \/ \E dt \in SessTicks : DOMAIN timers # {} /\ Tick(dt)

SpecDiffView == InitDiff /\ [][NextDiffView]_vars

\* the teardown of an accept, a cancel or a closeDiff on the diff uri
TornDown(uri) ==
    \E k \in DOMAIN tasks :
        /\ tasks[k].uri = uri
        /\ tasks[k].op \in {"acceptDiff", "cancelDiff", "closeDiff"}
        /\ Teardown(k)

\* C25: a record of diffDocuments is in the table after every step, with
\* the value it had, unless the step is the teardown of an accept, a cancel
\* or a closeDiff on its uri; a request, a ping, the close of a session,
\* the clock and the debounce timer leave the table and the cached
\* contents as they are
C25_DiffStaysUntilClosed ==
    /\ [][\A i \in DOMAIN diffDocuments :
            \/ \E j \in DOMAIN diffDocuments' : diffDocuments'[j] = diffDocuments[i]
            \/ TornDown(diffDocuments[i].key)]_vars
    /\ [][(\/ lastReq' # lastReq
           \/ \E sid \in keepAlive : KeepAlive(sid)
           \/ \E i \in DOMAIN transports : LinkDown(transports[i])
           \/ \E i \in DOMAIN transports : TransportClosed(transports[i])
           \/ \E ed \in SessEditors : OnDidChangeActiveTextEditor(Some(ed))
           \/ \E h \in DOMAIN timers : DebounceFire(h)
           \/ now' # now)
              => UNCHANGED <<diffDocuments, providerContent>>]_vars

\* a diff is in the table; since it was opened a session was initialized,
\* missed a ping and was closed, and the debounce timer has fired
C25_Witness ==
    /\ Len(diffDocuments) = 1
    /\ diffDocuments[1].key = issued[1]
    /\ tasks = <<>>
    /\ transports = <<>>
    /\ "s1" \in DOMAIN outbox
    /\ PingsSent("s1") = 1
    /\ missedPings["s1"] = 1
    /\ \E i \in DOMAIN outbox["s1"] :
          outbox["s1"][i].msg = ContextUpdate(openFiles, isTrusted)
    /\ openFiles # <<>>
    /\ now > 0
    /\ timers = EmptyMap

\* the sessions of the table
TableKeys == {transports[i] : i \in DOMAIN transports}

\* C40 (as the code has it): onclose takes the flag and the entry of its
\* session away in one step, and a flag is added only by a GET call after
\* its await, for the session whose id it carried when it began
C40_FlagFollowsItsGetCall ==
    /\ [][\A sid \in TableKeys :
            TransportClosed(sid)
               => /\ sid \notin sessionsWithInitialNotification'
                  /\ ~InTableNext(sid)]_vars
    /\ [][sessionsWithInitialNotification' \ sessionsWithInitialNotification # {}
            => \E k \in DOMAIN getCalls :
                  /\ InitialNotification(k)
                  /\ sessionsWithInitialNotification'
                        = sessionsWithInitialNotification \cup {getCalls[k]}]_vars
    /\ [][Len(getCalls') > Len(getCalls)
            => getCalls'[Len(getCalls')] \in TableKeys]_vars

\* a session has its flag, its transport was then closed and both are gone
C40_Witness ==
    /\ lastOp = "sessionClosed"
    /\ transports = <<>>
    /\ sessionsWithInitialNotification = {}
    /\ getCalls = <<>>
    /\ DOMAIN outbox = {"s1"}
    /\ firstContexts["s1"] = 1

\* C40 (as stated, refuted): the flagged sessions are sessions of the table
C40_FlagsWithinTable == sessionsWithInitialNotification \subseteq TableKeys

(***************************************************************************)
(* Two connected sessions: broadcasts of the context and of diff outcomes  *)
(***************************************************************************)
BcOpens == 1
BcTasks == 1

BcTicks == {25}
BcEditors == {EditorOn(FileUri(p), Caret) : p \in {"a", "b"}}

\* the list the constructor of the aggregator leaves
BcOpenFiles == Constructed(Some(EditorOn(FileUri("a"), Selected)))

\* two clients have initialized a session each and opened its stream, and
\* each has been sent the context of that moment
InitBroadcast ==
    /\ InitAggregator(BcOpenFiles)
    /\ isTrusted = TRUE
    /\ InitHost
    /\ lastOp = "responded"
    /\ InitDiffManager
    /\ transports = <<"s1", "s2">>
    /\ sessionsWithInitialNotification = {"s1", "s2"}
    /\ keepAlive = {"s1", "s2"}
    /\ missedPings = [sid \in {"s1", "s2"} |-> 0]
    /\ getCalls = <<>>
    /\ firstContexts = [sid \in {"s1", "s2"} |-> 1]
    /\ linkUp = [sid \in {"s1", "s2"} |-> TRUE]
    /\ outbox = [sid \in {"s1", "s2"} |->
                    <<[msg |-> ContextUpdate(BcOpenFiles, TRUE), ok |-> TRUE]>>]
    /\ lastReq = None
    /\ lastRes = None

NextBroadcast ==
    \/ \E ed \in BcEditors : InTime /\ OnDidChangeActiveTextEditor(Some(ed))
    \/ \E h \in DOMAIN timers : DebounceFire(h)
    \/ \E dt \in BcTicks : Tick(dt)
    \/ Len(issued) < BcOpens /\ Len(tasks) < BcTasks /\ ShowDiff(ToolFilePath, ToolNewContent)
    \/ \E k \in DOMAIN tasks : ShowDiffOpen(k)
    \/ \E k \in DOMAIN tasks : ShowDiffDone(k)
    \/ \E u \in DiffUris : Len(tasks) < BcTasks /\ AcceptDiff(u)
    \/ \E u \in DiffUris : Len(tasks) < BcTasks /\ CancelDiff(u)
    \/ \E k \in DOMAIN tasks : ReadBack(k)
    \/ \E k \in DOMAIN tasks : Teardown(k)
    \/ \E k \in DOMAIN tasks : TabClosed(k)
    \/ \E k \in DOMAIN tasks : Finish(k)
    \/ \E sid \in DOMAIN linkUp : LinkDown(sid)

\* time passes, and a timeout that is due runs
SpecBroadcast ==
    /\ InitBroadcast
    /\ [][NextBroadcast]_vars
    /\ WF_vars(\E dt \in BcTicks : Tick(dt))
    /\ WF_vars(\E h \in DOMAIN timers : DebounceFire(h))

(***************************************************************************)
(* Properties of the debounced signal and of the broadcasts                *)
(***************************************************************************)
\* the step in which the changed signal of the aggregator fires
Fires == firesSinceMutation' = firesSinceMutation + 1

\* what transport.send was handed, in order
Sent(sid) == [i \in DOMAIN outbox[sid] |-> outbox[sid][i].msg]

\* the step hands notification n to the transport of sid
Receives(sid, n) ==
    outbox'[sid] = Append(outbox[sid], [msg |-> n, ok |-> linkUp[sid]])

\* C3: after the last call of fireWithDebounce exactly one timeout is
\* pending, due 50 ms after that call, until the signal has fired once; the
\* signal never fires earlier than 50 ms after the last editor event and not
\* twice without an event in between; the context sent when it fires is the
\* list as the last event left it; and a pending timeout leads to the signal
C3_OneSignalPerBurst ==
    /\ [](/\ Cardinality(DOMAIN timers) <= 1
          /\ firesSinceMutation <= 1
          /\ timers # EmptyMap
                => /\ DOMAIN timers = {debounceTimer}
                   /\ timers[debounceTimer] = lastMutationAt + DEBOUNCE_MS
                   /\ firesSinceMutation = 0
          /\ (timers = EmptyMap /\ debounceTimer # 0) => firesSinceMutation = 1)
    /\ [][Fires => /\ now >= lastMutationAt + DEBOUNCE_MS
                   /\ \A i \in DOMAIN transports :
                         Receives(transports[i],
                                  ContextUpdate(afterLastEvent, isTrusted))]_vars
    /\ (timers # EmptyMap) ~> (timers = EmptyMap /\ firesSinceMutation = 1)

\* files b (at 0 ms) and a (at 25 ms) were activated, and the one signal of
\* this burst fired at 75 ms: each session holds the first context and one
\* update
C3_Witness ==
    /\ lastOp = "changed"
    /\ now = 75 /\ lastMutationAt = 25 /\ firesSinceMutation = 1
    /\ Len(openFiles) = 2
    /\ openFiles[1].path = "a" /\ openFiles[1].timestamp = 25
    /\ openFiles[2].path = "b" /\ openFiles[2].timestamp = 0
    /\ Sent("s1") = <<ContextUpdate(BcOpenFiles, TRUE), ContextUpdate(openFiles, TRUE)>>

\* a notification of a diff outcome
IsDiffOutcome(n) == n.method \in {"ide/diffAccepted", "ide/diffClosed"}

\* C7: the step in which the changed signal fires hands the context of that
\* moment to the transport of every session of the table, the step in which
\* the diff manager fires an outcome hands it to every one of them, and no
\* other step hands them anything; so the sessions of the table have been
\* handed the same notifications in the same order, the diff outcomes in
\* the order the diff manager fired them
C7_BroadcastToAllInOrder ==
    /\ [][Fires => \A i \in DOMAIN transports :
                      Receives(transports[i], ContextUpdate(openFiles, isTrusted))]_vars
    /\ [][emitted' # emitted
            => /\ Len(emitted') = Len(emitted) + 1
               /\ \A i \in DOMAIN transports :
                     Receives(transports[i], emitted'[Len(emitted')])]_vars
    /\ [][outbox' # outbox => (Fires \/ emitted' # emitted)]_vars
    /\ [](\A i, j \in DOMAIN transports :
             /\ Sent(transports[i]) = Sent(transports[j])
             /\ SelectSeq(Sent(transports[i]), IsDiffOutcome) = emitted)

\* both sessions were handed the first context, then a context update, then
\* the acceptance of a diff
C7_Witness ==
    /\ transports = <<"s1", "s2">>
    /\ Len(outbox["s1"]) = 3
    /\ outbox["s1"][2].msg.method = "ide/contextUpdate"
    /\ outbox["s1"][3].msg = DiffAccepted(ToolFilePath, ToolNewContent)
    /\ outbox["s2"] = outbox["s1"]
    /\ \A i \in 1..3 : outbox["s1"][i].ok

\* C8: in a step that broadcasts (the changed signal, or a diff outcome)
\* while the send on some session's transport fails, every other session of
\* the table is still handed the notification
C8_SendFailureIsolated ==
    [][\A i \in DOMAIN transports :
          ((Fires \/ emitted' # emitted) /\ ~linkUp[transports[i]])
              => \A j \in DOMAIN transports :
                    j # i => /\ Len(outbox'[transports[j]]) = Len(outbox[transports[j]]) + 1
                             /\ outbox'[transports[j]][Len(outbox'[transports[j]])].ok
                                    = linkUp[transports[j]]
                             /\ outbox'[transports[j]][Len(outbox'[transports[j]])].msg
                                    = IF Fires THEN ContextUpdate(openFiles, isTrusted)
                                      ELSE emitted'[Len(emitted')]]_vars

\* the send of a context update failed on s1, the first of the table, and
\* the update was sent on s2
C8_Witness ==
    /\ lastOp = "changed"
    /\ transports = <<"s1", "s2">>
    /\ ~linkUp["s1"] /\ linkUp["s2"]
    /\ Len(outbox["s1"]) = 2 /\ ~outbox["s1"][2].ok
    /\ Len(outbox["s2"]) = 2 /\ outbox["s2"][2].ok
    /\ outbox["s2"][2].msg = ContextUpdate(openFiles, TRUE)

\* the diff outcomes handed to a transport
Outcomes(ob, sid) == SelectSeq([i \in DOMAIN ob[sid] |-> ob[sid][i].msg], IsDiffOutcome)

\* C35: the step in which the diff manager fires an outcome hands it to
\* the transport of every session of the table and to no other transport;
\* no other step hands a diff outcome to any transport, a new one included;
\* with an empty table the step hands it to no one
C35_OutcomeToSessionsOfThatMoment ==
    /\ [][emitted' # emitted
            => /\ \A i \in DOMAIN transports :
                     Receives(transports[i], emitted'[Len(emitted')])
               /\ \A sid \in DOMAIN outbox :
                     (\A i \in DOMAIN transports : transports[i] # sid)
                        => outbox'[sid] = outbox[sid]
               /\ DOMAIN outbox' = DOMAIN outbox]_vars
    /\ [][emitted' = emitted
            => \A sid \in DOMAIN outbox' :
                  Outcomes(outbox', sid) = IF sid \in DOMAIN outbox
                                           THEN Outcomes(outbox, sid) ELSE <<>>]_vars

\* a diff was accepted while no session was in the table: the diff is gone
\* and the session that was initialized afterwards has not been handed the
\* outcome
C35_Witness ==
    /\ Len(emitted) = 1
    /\ emitted[1].method = "ide/diffAccepted"
    /\ diffDocuments = <<>>
    /\ tasks = <<>>
    /\ transports = <<"s1">>
    /\ DOMAIN outbox = {"s1"}
    /\ outbox["s1"] = <<>>

\* an editor event has called fireWithDebounce and the signal has not
\* fired since
SignalPending == debounceTimer # 0 /\ firesSinceMutation = 0

\* the signal has just fired, and the last notification handed to the
\* transport of every session of the table is the context as it is
ContextBroadcast ==
    /\ lastOp = "changed"
    /\ firesSinceMutation = 1
    /\ \A i \in DOMAIN transports :
          /\ outbox[transports[i]] # <<>>
          /\ outbox[transports[i]][Len(outbox[transports[i]])].msg
                = ContextUpdate(openFiles, isTrusted)

\* C32: with the clock and the due timeouts running (weak fairness of both)
\* and editor events that stop, an editor event is followed at some time by
\* the firing of the signal, at which every session of the table is handed
\* the context of that moment, the list as the last event left it
C32_EventLeadsToBroadcast ==
    /\ SignalPending ~> (ContextBroadcast /\ openFiles = afterLastEvent)
    /\ [][Fires => \A i \in DOMAIN transports :
                      Len(outbox'[transports[i]]) = Len(outbox[transports[i]]) + 1]_vars

\* file b was activated at 50 ms and the signal fired at 100 ms, when the
\* clock stops: both sessions were handed the context with b in front
C32_Witness ==
    /\ ContextBroadcast
    /\ now = MaxTime
    /\ lastMutationAt = MaxTime - DEBOUNCE_MS
    /\ openFiles[1].path = "b"
    /\ transports = <<"s1", "s2">>
    /\ Len(outbox["s1"]) = 2 /\ Len(outbox["s2"]) = 2

(***************************************************************************)
(* One session and editor events, some of which change nothing             *)
(***************************************************************************)
SigFiles == 2
SigEditors == {EditorOn(FileUri(p), sel) : p \in {"a", "b"}, sel \in AggSelections}
SigDeletes == {<<FileUri("c")>>, <<FileUri("b")>>}
SigRenames == {<<RenameTo(FileUri("c"), FileUri("d"))>>}

\* a client has initialized a session and opened its stream, and has been
\* sent the context of that moment
InitSignal ==
    /\ InitAggregator(BcOpenFiles)
    /\ isTrusted = TRUE
    /\ InitHost
    /\ lastOp = "responded"
    /\ InitDiffManager
    /\ transports = <<"s1">>
    /\ sessionsWithInitialNotification = {"s1"}
    /\ keepAlive = {"s1"}
    /\ missedPings = [sid \in {"s1"} |-> 0]
    /\ getCalls = <<>>
    /\ firstContexts = [sid \in {"s1"} |-> 1]
    /\ linkUp = [sid \in {"s1"} |-> TRUE]
    /\ outbox = [sid \in {"s1"} |->
                    <<[msg |-> ContextUpdate(BcOpenFiles, TRUE), ok |-> TRUE]>>]
    /\ lastReq = None
    /\ lastRes = None

NextSignal ==
    \/ \E ed \in SigEditors :
          InTime /\ Len(openFiles) <= SigFiles /\ OnDidChangeActiveTextEditor(Some(ed))
    \/ \E ed \in SigEditors : InTime /\ OnDidChangeTextEditorSelection(ed)
    \/ \E uris \in SigDeletes : InTime /\ OnDidDeleteFiles(uris)
    \/ \E pairs \in SigRenames : InTime /\ OnDidRenameFiles(pairs)
    \/ \E h \in DOMAIN timers : DebounceFire(h)
    \/ \E dt \in SessTicks : Tick(dt)

SpecSignal == InitSignal /\ [][NextSignal]_vars

\* the tracked state of a list: membership, order, paths, active flags,
\* cursors and selected texts
Shown(list) ==
    [i \in DOMAIN list |->
        [path |-> list[i].path, isActive |-> list[i].isActive,
         cursor |-> list[i].cursor, selectedText |-> list[i].selectedText]]

\* the list of the context that was sent last on the transport of sid
LastSent(sid) == outbox[sid][Len(outbox[sid])].msg.params.workspaceState.openFiles

\* an editor event handler runs
EditorEvent ==
    \/ \E ed \in SigEditors : OnDidChangeActiveTextEditor(Some(ed))
    \/ \E ed \in SigEditors : OnDidChangeTextEditorSelection(ed)
    \/ \E uris \in SigDeletes : OnDidDeleteFiles(uris)
    \/ \E pairs \in SigRenames : OnDidRenameFiles(pairs)

\* C38 (as the code has it): every editor event handler that runs, whether
\* it changes the list or not, leaves one timeout pending, due 50 ms later;
\* the signal fires only after a handler has run since it fired last
C38_EveryEventSchedules ==
    /\ [][EditorEvent => /\ DOMAIN timers' = {debounceTimer'}
                         /\ timers'[debounceTimer'] = now + DEBOUNCE_MS]_vars
    /\ [][Fires => firesSinceMutation = 0]_vars

\* the signal has fired twice, once of them after the rename of a file that
\* is not tracked, and no event has changed the list: the session was sent
\* the tracked state of the start three times
C38_Witness ==
    /\ lastOp = "changed"
    /\ renames = 1
    /\ Len(outbox["s1"]) = 3
    /\ \A i \in 1..3 :
          Shown(outbox["s1"][i].msg.params.workspaceState.openFiles) = Shown(BcOpenFiles)

\* C38 (as stated, refuted): when the signal fires after it has fired
\* before, the tracked state differs from the one sent at the previous firing
C38_FiresOnlyOnChange ==
    [][(Fires /\ Len(outbox["s1"]) >= 2)
          => Shown(openFiles) # Shown(LastSent("s1"))]_vars

(***************************************************************************)
(* The discovery record: syncEnvVars, writePortAndWorkspace and stop       *)
(***************************************************************************)
\* calls of writePortAndWorkspace that may be under way at a time
MaxWrites == 2

DiscFolders == {<<>>, <<"/w1">>, <<"/w1", "/w2">>}

\* a call of writePortAndWorkspace after its synchronous part: the content
\* it made, the files its writeFile has written, the files whose writeFile
\* or chmod was rejected, whether the call has returned to its caller,
\* whether the caller is start, and whether another call was under way at
\* any time since it began (history)
WriteCall(content, alone) ==
    [content |-> content, landed |-> {}, failed |-> {}, returned |-> FALSE,
     start |-> FALSE, alone |-> alone]

\* the calls whose Promise.all has settled and whose writes are all over are
\* no longer under way
UnderWay(ws) ==
    SelectSeq(ws, LAMBDA w :
        ~(w.returned /\ w.landed \cup w.failed = DiscoveryFileNames))

\* a variant that publishes when the server is gone as well
CanPublish_Always(srv) == TRUE

\* syncEnvVars: if (this.context && this.server && this.port && this.portFile
\* && this.ppidPortFile && this.authToken); after start only server varies
CanPublish(srv) == srv

\* syncEnvVars up to the await inside writePortAndWorkspace, with the
\* folders of the workspace as they are when it is called
syncEnvVars(folders) ==
    IF CanPublish(server)
    THEN /\ environment' = Some(WorkspacePath(folders))
         /\ writes' = Append([k \in DOMAIN writes |-> [writes[k] EXCEPT !.alone = FALSE]],
                             WriteCall(WorkspacePath(folders), writes = <<>>))
    ELSE UNCHANGED <<environment, writes>>

\* vscode.workspace.onDidChangeWorkspaceFolders
OnDidChangeWorkspaceFolders(folders) ==
    /\ folders # workspaceFolders
    /\ workspaceFolders' = folders
    /\ syncEnvVars(folders)
    /\ lastOp' = "workspaceFolders"
    /\ UNCHANGED <<disk, server, discoveryFiles, stopTask>>
    /\ UNCHANGED <<aggVars, now, isTrusted, aggHist, diffVars, srvVars>>

\* vscode.workspace.onDidGrantWorkspaceTrust
OnDidGrantWorkspaceTrust ==
    /\ ~isTrusted
    /\ isTrusted' = TRUE
    /\ syncEnvVars(workspaceFolders)
    /\ lastOp' = "trustGranted"
    /\ UNCHANGED <<disk, server, workspaceFolders, discoveryFiles, stopTask>>
    /\ UNCHANGED <<aggVars, now, aggHist, diffVars, srvVars>>

\* fs.writeFile of one of the two files resolves: the file holds the content
\* of the call (chmod follows and leaves the content)
WriteLands(k, f) ==
    /\ f \notin writes[k].landed \cup writes[k].failed
    /\ discoveryFiles' = [discoveryFiles EXCEPT ![f] = Some(writes[k].content)]
    /\ writes' = UnderWay([writes EXCEPT ![k].landed = @ \cup {f}])
    /\ lastOp' = "writeLands"
    /\ UNCHANGED <<disk, server, workspaceFolders, environment, stopTask>>
    /\ UNCHANGED <<aggVars, now, isTrusted, aggHist, diffVars, srvVars>>

\* Promise.all has resolved: syncEnvVars goes on to broadcastIdeContextUpdate
SyncDone(k) ==
    /\ ~writes[k].start
    /\ writes[k].landed = DiscoveryFileNames
    /\ writes' = Splice(writes, k)
    /\ outbox' = broadcastIdeContextUpdate(outbox, linkUp, transports, openFiles, isTrusted)
    /\ lastOp' = "syncDone"
    /\ UNCHANGED <<disk, server, workspaceFolders, discoveryFiles, environment, stopTask>>
    /\ UNCHANGED <<aggVars, now, isTrusted, aggHist, diffVars, sessVars>>

\* stop up to its first await: server.close(callback), or, with no server,
\* the clearing of the environment and the first unlink
Stop ==
    /\ stopTask = "idle"
    /\ IF server
       THEN /\ stopTask' = "closing"
            /\ UNCHANGED environment
       ELSE /\ stopTask' = "unlinkPort"
            /\ environment' = None
    /\ lastOp' = "stop"
    /\ UNCHANGED <<disk, server, workspaceFolders, discoveryFiles, writes>>
    /\ UNCHANGED <<aggVars, now, isTrusted, aggHist, diffVars, srvVars>>

\* the callback of server.close: with an error the promise is rejected and
\* stop throws; without, server is unset, the environment is cleared and
\* the first unlink is called
StopClosed(err) ==
    /\ stopTask = "closing"
    /\ IF err
       THEN /\ stopTask' = "failed"
            /\ UNCHANGED <<server, environment>>
       ELSE /\ stopTask' = "unlinkPort"
            /\ server' = FALSE
            /\ environment' = None
    /\ lastOp' = IF err THEN "stop.failed" ELSE "stop.closed"
    /\ UNCHANGED <<disk, workspaceFolders, discoveryFiles, writes>>
    /\ UNCHANGED <<aggVars, now, isTrusted, aggHist, diffVars, srvVars>>

\* fs.unlink: the file is gone; for a missing file it rejects, which stop
\* catches and ignores
Unlink(files, f) == [files EXCEPT ![f] = None]

\* try { await fs.unlink(this.portFile) } catch {}
StopUnlinkPort ==
    /\ stopTask = "unlinkPort"
    /\ discoveryFiles' = Unlink(discoveryFiles, "portFile")
    /\ stopTask' = "unlinkPpid"
    /\ lastOp' = "stop.unlinkPort"
    /\ UNCHANGED <<disk, server, workspaceFolders, environment, writes>>
    /\ UNCHANGED <<aggVars, now, isTrusted, aggHist, diffVars, srvVars>>

\* try { await fs.unlink(this.ppidPortFile) } catch {}; stop returns
StopUnlinkPpid ==
    /\ stopTask = "unlinkPpid"
    /\ discoveryFiles' = Unlink(discoveryFiles, "ppidPortFile")
    /\ stopTask' = "done"
    /\ lastOp' = "stop.done"
    /\ UNCHANGED <<disk, server, workspaceFolders, environment, writes>>
    /\ UNCHANGED <<aggVars, now, isTrusted, aggHist, diffVars, srvVars>>

\* something else removes a file of os.tmpdir()
FileRemoved(f) ==
    /\ discoveryFiles[f] # None
    /\ discoveryFiles' = [discoveryFiles EXCEPT ![f] = None]
    /\ lastOp' = "fileRemoved"
    /\ UNCHANGED <<disk, server, workspaceFolders, environment, writes, stopTask>>
    /\ UNCHANGED <<aggVars, now, isTrusted, aggHist, diffVars, srvVars>>

\* activate has run in a workspace that is not trusted yet
InitDiscovery ==
    /\ InitAggregator(Constructed(None))
    /\ isTrusted = FALSE
    /\ InitHost
    /\ lastOp = "init"
    /\ InitDiffManager
    /\ InitNoSession

\* the server runs: folders change, trust is granted, writes land
NextPublish ==
    \/ \E folders \in DiscFolders :
          Len(writes) < MaxWrites /\ OnDidChangeWorkspaceFolders(folders)
    \/ Len(writes) < MaxWrites /\ OnDidGrantWorkspaceTrust
    \/ \E k \in DOMAIN writes, f \in DiscoveryFileNames : WriteLands(k, f)
    \/ \E k \in DOMAIN writes : SyncDone(k)

SpecPublish == InitDiscovery /\ [][NextPublish]_vars

\* the same, and the extension is deactivated at some time
NextStop ==
    \/ NextPublish
    \/ Stop
    \/ \E err \in BOOLEAN : StopClosed(err)
    \/ StopUnlinkPort
    \/ StopUnlinkPpid
    \/ \E f \in DiscoveryFileNames : FileRemoved(f)

SpecStop == InitDiscovery /\ [][NextStop]_vars

(***************************************************************************)
(* Properties of the discovery record                                      *)
(***************************************************************************)
\* both files hold the joined paths of the folders of the workspace
FilesCurrent(files) ==
    \A f \in DiscoveryFileNames : files[f] = Some(WorkspacePath(workspaceFolders))

\* C23 (as the code has it): each unlink of stop leaves its file missing and
\* lets stop go on, whether the file was there or not; a stop that returns
\* has called both
C23_UnlinkRemovesAndGoesOn ==
    /\ [][StopUnlinkPort
            => discoveryFiles'["portFile"] = None /\ stopTask' = "unlinkPpid"]_vars
    /\ [][StopUnlinkPpid
            => discoveryFiles'["ppidPortFile"] = None /\ stopTask' = "done"]_vars
    /\ [][stopTask' = "done" => stopTask \in {"unlinkPpid", "done"}]_vars

\* stop has removed the file keyed by the port and comes to the file keyed
\* by the parent process id, which something else has removed meanwhile
C23_Witness ==
    /\ stopTask = "unlinkPpid"
    /\ lastOp = "fileRemoved"
    /\ ~server
    /\ \A f \in DiscoveryFileNames : discoveryFiles[f] = None

\* C23 (as stated, refuted): when stop has finished with the error of
\* server.close, both discovery files are removed
C23_RemovedAlsoOnError ==
    stopTask = "failed" => \A f \in DiscoveryFileNames : discoveryFiles[f] = None

\* C24 (as the code has it): when a call of writePortAndWorkspace that no
\* other call overlapped has written both files, they hold the paths of the
\* folders as they are then
C24_CurrentWithoutOverlap ==
    [][\A k \in DOMAIN writes :
          SyncDone(k) /\ writes[k].alone => FilesCurrent(discoveryFiles')]_vars

\* folders were added, and the one call this started has written both files
C24_Witness ==
    /\ lastOp = "syncDone"
    /\ writes = <<>>
    /\ workspaceFolders = <<"/w1", "/w2">>
    /\ FilesCurrent(discoveryFiles)
    /\ environment = Some("/w1:/w2")

\* C24 (as stated, refuted): whenever no write is under way, both files
\* hold the paths of the folders of the workspace as they are
C24_NeverStale ==
    (server /\ writes = <<>>) => FilesCurrent(discoveryFiles)

\* a folder change or a trust grant is handled
SyncCalled ==
    \/ \E folders \in DiscFolders : OnDidChangeWorkspaceFolders(folders)
    \/ OnDidGrantWorkspaceTrust

\* C36 (as the code has it): a syncEnvVars that is called when stop has
\* unset the server writes nothing: it starts no write and leaves the files
\* and the environment as they are
C36_NoPublishAfterServerUnset ==
    [][(SyncCalled /\ ~server)
          => UNCHANGED <<writes, discoveryFiles, environment>>]_vars

\* stop has returned, no write is under way, and the folders of the
\* workspace have changed since: no discovery file exists
C36_Witness ==
    /\ stopTask = "done"
    /\ lastOp = "workspaceFolders"
    /\ writes = <<>>
    /\ environment = None
    /\ \A f \in DiscoveryFileNames : discoveryFiles[f] = None

\* C36 (as stated, refuted): once stop has returned no discovery file exists
C36_NoFileAfterStop ==
    stopTask = "done" => \A f \in DiscoveryFileNames : discoveryFiles[f] = None


(***************************************************************************)
(* start: the listen callback, with writes of the discovery files that may *)
(* be rejected                                                             *)
(***************************************************************************)
StartSessions == 1
StartOpens == 1
StartTasks == 1
StartFiles == 2
StartWrites == 1
StartFolders == {<<"/w1", "/w2">>}

\* the call of writePortAndWorkspace the listen callback of start awaits
StartCall(content) ==
    [content |-> content, landed |-> {}, failed |-> {}, returned |-> FALSE,
     start |-> TRUE, alone |-> TRUE]

\* a variant in which the rejection of a write closes the server
AfterWriteFailure_Fatal(srv) == FALSE

\* catch (err) { log(...) }: the rejection is logged and nothing else
AfterWriteFailure(srv) == srv

\* start has not resolved yet
StartPending == \E k \in DOMAIN writes : writes[k].start /\ ~writes[k].returned

\* a write of the call of start has been rejected and start has not resolved
StartFailing ==
    \E k \in DOMAIN writes :
        writes[k].start /\ ~writes[k].returned /\ writes[k].failed # {}

\* fs.writeFile of one of the two files, or the chmod that follows it, is
\* rejected: with the former the file is as it was, with the latter it holds
\* the content of the call
WriteFails(k, f, created) ==
    /\ f \notin writes[k].landed \cup writes[k].failed
    /\ discoveryFiles' = IF created
                         THEN [discoveryFiles EXCEPT ![f] = Some(writes[k].content)]
                         ELSE discoveryFiles
    /\ writes' = UnderWay([writes EXCEPT ![k].failed = @ \cup {f}])
    /\ lastOp' = "writeFails"
    /\ UNCHANGED <<disk, server, workspaceFolders, environment, stopTask>>
    /\ UNCHANGED <<aggVars, now, isTrusted, aggHist, diffVars, srvVars>>

\* Promise.all has been rejected: the catch block of writePortAndWorkspace
\* logs, and the caller goes on: start resolves, syncEnvVars broadcasts
WriteFailureCaught(k) ==
    /\ ~writes[k].returned
    /\ writes[k].failed # {}
    /\ writes' = UnderWay([writes EXCEPT ![k].returned = TRUE])
    /\ server' = AfterWriteFailure(server)
    /\ IF writes[k].start
       THEN /\ UNCHANGED outbox
            /\ lastOp' = "start.done"
       ELSE /\ outbox' = broadcastIdeContextUpdate(outbox, linkUp, transports,
                                                   openFiles, isTrusted)
            /\ lastOp' = "syncDone"
    /\ UNCHANGED <<disk, workspaceFolders, discoveryFiles, environment, stopTask>>
    /\ UNCHANGED <<aggVars, now, isTrusted, aggHist, diffVars, sessVars>>

\* Promise.all has resolved in the call of start: resolve()
StartResolves(k) ==
    /\ writes[k].start
    /\ writes[k].landed = DiscoveryFileNames
    /\ writes' = Splice(writes, k)
    /\ lastOp' = "start.done"
    /\ UNCHANGED <<disk, server, workspaceFolders, discoveryFiles, environment, stopTask>>
    /\ UNCHANGED <<aggVars, now, isTrusted, aggHist, diffVars, srvVars>>

\* the listen callback of start has set port, portFile and ppidPortFile and
\* called writePortAndWorkspace, which has replaced the environment
\* variables and called writeFile for both files
InitStart ==
    /\ InitAggregator(Constructed(Some(EditorOn(FileUri("a"), Selected))))
    /\ isTrusted = TRUE
    /\ disk = [p \in {"a.txt", "b.txt"} |-> "old"]
    /\ server = TRUE
    /\ workspaceFolders = InitialFolders
    /\ discoveryFiles = [f \in DiscoveryFileNames |-> None]
    /\ environment = Some(WorkspacePath(InitialFolders))
    /\ writes = <<StartCall(WorkspacePath(InitialFolders))>>
    /\ stopTask = "idle"
    /\ lastOp = "listening"
    /\ InitDiffManager
    /\ InitNoSession

\* the requests of one client that holds the token, and of one that does not
StartRequests ==
    {Req("POST", "/mcp", "initialize", None, SessHost, a, None) :
        a \in {Some(<<"Bearer", authToken>>), Some(<<"Bearer", "guess">>)}}
    \cup {Req("POST", "/mcp", "openDiff", None, SessHost,
              Some(<<"Bearer", authToken>>), Some("s1"))}

StartWithinBounds(req) ==
    Middleware(req) = None =>
        /\ req.body = "initialize" => Cardinality(DOMAIN outbox) < StartSessions
        /\ req.body = "openDiff" => Len(issued) < StartOpens /\ Len(tasks) < StartTasks

\* the server listens while start awaits its writes; the handlers of folder
\* changes are registered by activate after start has returned
NextStart ==
    \/ \E k \in DOMAIN writes, f \in DiscoveryFileNames : WriteLands(k, f)
    \/ \E k \in DOMAIN writes, f \in DiscoveryFileNames, created \in BOOLEAN :
          WriteFails(k, f, created)
    \/ \E k \in DOMAIN writes : WriteFailureCaught(k)
    \/ \E k \in DOMAIN writes : StartResolves(k)
    \/ \E k \in DOMAIN writes : SyncDone(k)
    \/ \E folders \in StartFolders :
          /\ ~StartPending
          /\ Len(writes) < StartWrites
          /\ OnDidChangeWorkspaceFolders(folders)
    \/ /\ server
       /\ lastReq = None
       /\ \E req \in StartRequests : StartWithinBounds(req) /\ Request(req)
    \/ ResponseSent
    \/ \E k \in DOMAIN tasks : ShowDiffOpen(k)
    \/ \E k \in DOMAIN tasks : ShowDiffDone(k)
    \/ \E ed \in SessEditors :
          Len(openFiles) < StartFiles /\ OnDidChangeActiveTextEditor(Some(ed))

SpecStart ==
    /\ InitStart
    /\ [][NextStart]_vars
    /\ WF_vars(\E k \in DOMAIN writes : WriteFailureCaught(k))

\* a step in which a write is rejected or the rejection is caught
FailureStep ==
    \E k \in DOMAIN writes :
        \/ WriteFailureCaught(k)
        \/ \E f \in DiscoveryFileNames, created \in BOOLEAN : WriteFails(k, f, created)

\* C33: the rejection of a write of the discovery files is caught: start
\* resolves all the same, the server stays set, a request with the token is
\* routed as before whatever the files hold, and the steps of the failure
\* leave the session table, the table of diffs and the tracked files alone
C33_WriteFailureIsNotFatal ==
    /\ [](server)
    /\ StartFailing ~> ~StartPending
    /\ [][FailureStep => UNCHANGED <<transports, diffDocuments, openFiles>>]_vars
    /\ [][\A req \in StartRequests :
            (Request(req) /\ Middleware(req) = None /\ req.body = "initialize")
                => /\ lastRes' = ByTransport
                   /\ transports' = Append(transports, NewSessionId)]_vars

\* both writes of start were rejected and no file exists; start has
\* resolved, and afterwards a client with the token has got a session and
\* opened a diff, and an editor was activated
C33_Witness ==
    /\ server
    /\ writes = <<>>
    /\ \A f \in DiscoveryFileNames : discoveryFiles[f] = None
    /\ transports = <<"s1">>
    /\ Len(diffDocuments) = 1
    /\ Len(openFiles) = 2

====
